---- MODULE Spec2Model ----
(***************************************************************************)
(* clipcat: file collection (pkg/collector), exclusion matching            *)
(* (pkg/exclude) and the Run pipeline (pkg/clipcat).                       *)
(*                                                                         *)
(* Go strings are modelled as sequences of one-character strings, so that  *)
(* strings.HasPrefix, strings.Contains, filepath.Match and the rest are    *)
(* computed character by character as the Go code computes them.  The      *)
(* platform is Unix: filepath.Separator is "/".                            *)
(***************************************************************************)
EXTENDS Integers, Sequences, FiniteSets, TLC

(***************************************************************************)
(* Characters, in byte order (sort.Strings and Go's < compare bytes).      *)
(***************************************************************************)
Ascii ==
  << " ", "!", "#", "*", ",", "-", ".", "/",
     "0", "1", "2", "3", "4", "5", "6", "7", "8", "9", "?",
     "A", "B", "C", "D", "E", "F", "G", "H", "I", "J", "K", "L", "M",
     "N", "O", "P", "Q", "R", "S", "T", "U", "V", "W", "X", "Y", "Z",
     "[", "]", "_",
     "a", "b", "c", "d", "e", "f", "g", "h", "i", "j", "k", "l", "m",
     "n", "o", "p", "q", "r", "s", "t", "u", "v", "w", "x", "y", "z",
     "{", "}" >>

CodeOf == [c \in { Ascii[i] : i \in DOMAIN Ascii } |->
             CHOOSE i \in DOMAIN Ascii : Ascii[i] = c]

Code(c) == CodeOf[c]

Upper == << "A", "B", "C", "D", "E", "F", "G", "H", "I", "J", "K", "L", "M",
            "N", "O", "P", "Q", "R", "S", "T", "U", "V", "W", "X", "Y", "Z" >>

Lower == << "a", "b", "c", "d", "e", "f", "g", "h", "i", "j", "k", "l", "m",
            "n", "o", "p", "q", "r", "s", "t", "u", "v", "w", "x", "y", "z" >>

osSep == "/"

(***************************************************************************)
(* package strings                                                         *)
(***************************************************************************)
Range(s) == { s[i] : i \in DOMAIN s }

Drop(s, n) == SubSeq(s, n + 1, Len(s))

Take(s, n) == SubSeq(s, 1, n)

HasPrefix(s, prefix) ==
  Len(s) >= Len(prefix) /\ Take(s, Len(prefix)) = prefix

HasSuffix(s, suffix) ==
  Len(s) >= Len(suffix) /\ Drop(s, Len(s) - Len(suffix)) = suffix

TrimSuffix(s, suffix) ==
  IF HasSuffix(s, suffix) THEN Take(s, Len(s) - Len(suffix)) ELSE s

Contains(s, sub) ==
  \E i \in 0..(Len(s) - Len(sub)) : SubSeq(s, i + 1, i + Len(sub)) = sub

ContainsAny(s, chars) == Range(s) \cap chars # {}

ToLowerChar(c) ==
  IF \E i \in DOMAIN Upper : Upper[i] = c
  THEN Lower[CHOOSE i \in DOMAIN Upper : Upper[i] = c]
  ELSE c

ToLower(s) == [i \in DOMAIN s |-> ToLowerChar(s[i])]

RECURSIVE TrimLeft(_)
TrimLeft(s) ==
  IF s # <<>> /\ Head(s) = " " THEN TrimLeft(Tail(s)) ELSE s

RECURSIVE TrimRight(_)
TrimRight(s) ==
  IF s # <<>> /\ s[Len(s)] = " " THEN TrimRight(Take(s, Len(s) - 1)) ELSE s

TrimSpace(s) == TrimRight(TrimLeft(s))

\* s < t in Go (byte-wise lexicographic order)
RECURSIVE StrLess(_, _)
StrLess(s, t) ==
  IF t = <<>> THEN FALSE
  ELSE IF s = <<>> THEN TRUE
  ELSE IF Head(s) = Head(t) THEN StrLess(Tail(s), Tail(t))
  ELSE Code(Head(s)) < Code(Head(t))

\* sort.Strings: the ascending arrangement of the elements of s
SortStrings(s) == SortSeq(s, StrLess)

\* the elements of a set of strings as an ascending sequence
RECURSIVE SetToSortedSeq(_)
SetToSortedSeq(S) ==
  IF S = {} THEN <<>>
  ELSE LET m == CHOOSE x \in S : \A y \in S : y = x \/ StrLess(x, y)
       IN  <<m>> \o SetToSortedSeq(S \ {m})

(***************************************************************************)
(* package path/filepath (Unix)                                            *)
(***************************************************************************)
\* the pieces of s between separators
RECURSIVE SplitFrom(_, _, _)
SplitFrom(s, i, cur) ==
  IF i > Len(s) THEN <<cur>>
  ELSE IF s[i] = osSep THEN <<cur>> \o SplitFrom(s, i + 1, <<>>)
  ELSE SplitFrom(s, i + 1, Append(cur, s[i]))

Split(s) == SplitFrom(s, 1, <<>>)

RECURSIVE JoinSegs(_)
JoinSegs(segs) ==
  IF segs = <<>> THEN <<>>
  ELSE IF Len(segs) = 1 THEN segs[1]
  ELSE segs[1] \o <<osSep>> \o JoinSegs(Tail(segs))

IsAbs(p) == p # <<>> /\ Head(p) = osSep

\* Clean's treatment of the segments: "" and "." vanish, ".." removes the
\* segment before it (at the root it vanishes, in a relative path it stays)
RECURSIVE CleanSegs(_, _, _)
CleanSegs(segs, out, rooted) ==
  IF segs = <<>> THEN out
  ELSE LET h == Head(segs) IN
       IF h = <<>> \/ h = <<".">> THEN CleanSegs(Tail(segs), out, rooted)
       ELSE IF h = <<".", ".">>
            THEN IF out # <<>> /\ out[Len(out)] # <<".", ".">>
                 THEN CleanSegs(Tail(segs), Take(out, Len(out) - 1), rooted)
                 ELSE IF rooted THEN CleanSegs(Tail(segs), out, rooted)
                 ELSE CleanSegs(Tail(segs), Append(out, h), rooted)
            ELSE CleanSegs(Tail(segs), Append(out, h), rooted)

Clean(p) ==
  LET body == JoinSegs(CleanSegs(Split(p), <<>>, IsAbs(p)))
  IN  IF IsAbs(p) THEN <<osSep>> \o body
      ELSE IF body = <<>> THEN <<".">> ELSE body

Join(a, b) ==
  IF a = <<>> THEN (IF b = <<>> THEN <<>> ELSE Clean(b))
  ELSE IF b = <<>> THEN Clean(a)
  ELSE Clean(a \o <<osSep>> \o b)

\* filepath.Base: the last element, trailing separators removed
RECURSIVE StripTrailingSeps(_)
StripTrailingSeps(p) ==
  IF Len(p) > 0 /\ p[Len(p)] = osSep
  THEN StripTrailingSeps(Take(p, Len(p) - 1)) ELSE p

Base(p) ==
  IF p = <<>> THEN <<".">>
  ELSE LET q == StripTrailingSeps(p) IN
       IF q = <<>> THEN <<osSep>>
       ELSE LET segs == Split(q) IN segs[Len(segs)]

\* filepath.Rel(".", targ): targ cleaned when it is relative; an error when
\* targ is rooted, because a relative base cannot be compared with it.
\* The error is modelled by the value RelError.
RelError == <<"\\", "\\">>

RelDot(targ) ==
  LET t == Clean(targ) IN
  IF t = <<".">> THEN <<".">>
  ELSE IF IsAbs(t) THEN RelError
  ELSE t

\* filepath.Match: "*" is any run of non-separator characters, "?" is one
\* non-separator character, every other character stands for itself; the
\* whole name must be matched.
RECURSIVE Match(_, _)
Match(pattern, name) ==
  IF pattern = <<>> THEN name = <<>>
  ELSE IF Head(pattern) = "*"
       THEN \E k \in 0..Len(name) :
              /\ \A j \in 1..k : name[j] # osSep
              /\ Match(Tail(pattern), Drop(name, k))
  ELSE IF Head(pattern) = "?"
       THEN name # <<>> /\ Head(name) # osSep
            /\ Match(Tail(pattern), Tail(name))
  ELSE name # <<>> /\ Head(name) = Head(pattern)
       /\ Match(Tail(pattern), Tail(name))


(***************************************************************************)
(* github.com/bmatcuk/doublestar/v4, as far as clipcat uses it: Match with *)
(* "**" standing for zero or more whole path segments when it is a segment *)
(* of its own, and {a,b} alternation.                                      *)
(***************************************************************************)
IndexOf(s, c) ==
  IF \E i \in DOMAIN s : s[i] = c
  THEN CHOOSE i \in DOMAIN s : s[i] = c /\ \A j \in 1..(i - 1) : s[j] # c
  ELSE 0

\* the alternatives of a brace group body "a,b,c"
RECURSIVE SplitComma(_)
SplitComma(s) ==
  LET k == IndexOf(s, ",") IN
  IF k = 0 THEN {s} ELSE {Take(s, k - 1)} \cup SplitComma(Drop(s, k))

\* a pattern with its first brace group replaced by each alternative in turn
RECURSIVE BraceExpand(_)
BraceExpand(p) ==
  LET o == IndexOf(p, "{") IN
  IF o = 0 THEN {p}
  ELSE LET rest == Drop(p, o)
           c    == IndexOf(rest, "}")
       IN  IF c = 0 THEN {}
           ELSE UNION { BraceExpand(Take(p, o - 1) \o alt \o Drop(rest, c)) :
                          alt \in SplitComma(Take(rest, c - 1)) }

RECURSIVE DoublestarNoBrace(_, _)
\* DoublestarNoBrace with a leading "**" segment standing for one or more
\* segments, never for none
DoublestarNoBraceOneOrMore(p, s) ==
  IF p = <<"*", "*">> THEN TRUE
  ELSE IF HasPrefix(p, <<"*", "*", "/">>)
       THEN \E k \in DOMAIN s :
              /\ s[k] = osSep
              /\ \/ DoublestarNoBrace(Drop(p, 3), Drop(s, k))
                 \/ DoublestarNoBrace(p, Drop(s, k))
  ELSE LET pk == IndexOf(p, osSep)
           sk == IndexOf(s, osSep)
       IN  IF pk = 0 THEN sk = 0 /\ Match(p, s)
           ELSE \/ /\ sk # 0
                   /\ Match(Take(p, pk - 1), Take(s, sk - 1))
                   /\ DoublestarNoBrace(Drop(p, pk), Drop(s, sk))
                \/ /\ sk = 0
                   /\ Drop(p, pk) = <<"*", "*">>
                   /\ Match(Take(p, pk - 1), s)

DoublestarNoBrace(p, s) ==
  IF p = <<"*", "*">> THEN TRUE
  ELSE IF HasPrefix(p, <<"*", "*", "/">>)
       THEN \/ DoublestarNoBrace(Drop(p, 3), s)
            \/ \E k \in DOMAIN s :
                 s[k] = osSep /\ DoublestarNoBrace(p, Drop(s, k))
  ELSE LET pk == IndexOf(p, osSep)
           sk == IndexOf(s, osSep)
       IN  IF pk = 0 THEN sk = 0 /\ Match(p, s)
           ELSE \/ /\ sk # 0
                   /\ Match(Take(p, pk - 1), Take(s, sk - 1))
                   /\ DoublestarNoBrace(Drop(p, pk), Drop(s, sk))
                \/ /\ sk = 0
                   /\ Drop(p, pk) = <<"*", "*">>
                   /\ Match(Take(p, pk - 1), s)

DoublestarMatch(pattern, name) ==
  \E q \in BraceExpand(pattern) : DoublestarNoBrace(q, name)

(***************************************************************************)
(* The file system below the working directory.  A tree is a record        *)
(* [files, dirs] of cleaned paths relative to the working directory Cwd.   *)
(***************************************************************************)
Cwd == <<"/", "w">>

Dot == <<".">>

\* the entry a path names, as a path relative to Cwd; Outside for a path
\* that leaves the working directory
Outside == <<"\\">>

FsKey(p) ==
  LET c == Clean(p) IN
  IF IsAbs(c)
  THEN IF c = Cwd THEN Dot
       ELSE IF HasPrefix(c, Cwd \o <<osSep>>) THEN Drop(c, Len(Cwd) + 1)
       ELSE Outside
  ELSE IF HasPrefix(c, <<".", ".">>) THEN Outside ELSE c

\* os.Stat / os.FileInfo.IsDir
Exists(fs, p) == FsKey(p) \in fs.files \cup fs.dirs \cup {Dot}

IsDir(fs, p) == FsKey(p) \in fs.dirs \cup {Dot}

\* readDirNames of filepath.Walk fails (permission denied) for the
\* directories a tree lists in its field denied; os.Stat and os.Lstat of
\* such a directory succeed
ReadDirFails(fs, p) ==
  "denied" \in DOMAIN fs /\ FsKey(p) \in fs.denied

\* filepath.Dir of a cleaned relative path
DirOf(key) ==
  LET segs == Split(key) IN
  IF Len(segs) = 1 THEN Dot ELSE JoinSegs(Take(segs, Len(segs) - 1))

\* the names in a directory, in the order filepath.Walk visits them
ReadDirNames(fs, p) ==
  LET key == FsKey(p) IN
  SetToSortedSeq({ Base(e) : e \in { x \in fs.files \cup fs.dirs :
                                       DirOf(x) = key } })

\* filepath.Abs
Abs(p) == IF IsAbs(p) THEN Clean(p) ELSE Join(Cwd, p)


(***************************************************************************)
(* github.com/sabhiram/go-gitignore, for rule lines whose body is a single *)
(* path segment: an optional "!", an optional leading "/", the body, an    *)
(* optional trailing "/".  CompileIgnoreLines turns a line into a regular  *)
(* expression that finds the body as a whole segment of the path: any      *)
(* segment for a plain rule, the first segment for a rule with a leading   *)
(* "/", a segment that has something below it for a rule with a trailing   *)
(* "/".  A star in the body stands for any run of non-separator            *)
(* characters.  MatchesPath runs the rules in order, the last one that     *)
(* matches decides, and a negated rule only undoes an earlier match.       *)
(***************************************************************************)
GiTrimmed(line) == TrimSpace(line)

\* comment lines and blank lines compile to no rule
GiIsRule(line) ==
  /\ ~ HasPrefix(line, <<"#">>)
  /\ GiTrimmed(line) # <<>>

GiNegate(line) == HasPrefix(GiTrimmed(line), <<"!">>)

GiUnsigned(line) ==
  IF GiNegate(line) THEN Tail(GiTrimmed(line)) ELSE GiTrimmed(line)

GiAnchored(line) == HasPrefix(GiUnsigned(line), <<"/">>)

GiDirOnly(line) == HasSuffix(GiUnsigned(line), <<"/">>)

GiBody(line) ==
  LET u == GiUnsigned(line)
      v == IF GiAnchored(line) THEN Tail(u) ELSE u
  IN  TrimSuffix(v, <<"/">>)

\* CompileIgnoreLines: one compiled pattern per rule line, in order
GiCompileLine(line) ==
  [ negate   |-> GiNegate(line),
    anchored |-> GiAnchored(line),
    dirOnly  |-> GiDirOnly(line),
    body     |-> GiBody(line) ]

CompileIgnoreLines(lines) ==
  LET rules == SelectSeq(lines, GiIsRule)
  IN  [i \in DOMAIN rules |-> GiCompileLine(rules[i])]

\* does the regular expression of the compiled pattern match the segments
\* of a path
GiPatternMatches(ip, segs) ==
  LET n     == Len(segs)
      first == IF n > 1 /\ segs[1] = <<>> THEN 2 ELSE 1
      last  == IF ip.dirOnly THEN n - 1 ELSE n
      cand  == IF ip.anchored THEN {first} \cap (1..last) ELSE 1..last
  IN  \E i \in cand : Match(ip.body, segs[i])

RECURSIVE GiFold(_, _, _)
\* GiFold with negated rules left out of account: a match by any rule that
\* is not negated stands
GiFoldNoNegation(patterns, segs, matchesPath) ==
  IF patterns = <<>> THEN matchesPath
  ELSE LET ip == Head(patterns) IN
       IF GiPatternMatches(ip, segs) /\ ~ ip.negate
       THEN GiFold(Tail(patterns), segs, TRUE)
       ELSE GiFold(Tail(patterns), segs, matchesPath)

GiFold(patterns, segs, matchesPath) ==
  IF patterns = <<>> THEN matchesPath
  ELSE LET ip == Head(patterns) IN
       IF GiPatternMatches(ip, segs)
       THEN GiFold(Tail(patterns), segs, ~ ip.negate)
       ELSE GiFold(Tail(patterns), segs, matchesPath)

MatchesPath(patterns, f) == GiFold(patterns, Split(f), FALSE)

(***************************************************************************)
(* package exclude                                                         *)
(***************************************************************************)
RECURSIVE Flatten(_)
Flatten(ss) == IF ss = <<>> THEN <<>> ELSE Head(ss) \o Flatten(Tail(ss))

\* an exclude file that os.Open fails on, in the place of its lines
CannotOpen == << <<"\\", "x">> >>

\* BuildMatcherError with the error of readPatternsFromFile dropped
BuildMatcherErrorIgnored(files) == 0

\* BuildMatcher: the position in files of the first file that
\* readPatternsFromFile fails on, 0 when every file is read
BuildMatcherError(files) ==
  LET failing == { i \in DOMAIN files : files[i] = CannotOpen }
  IN  IF failing = {} THEN 0
      ELSE CHOOSE i \in failing : \A j \in failing : i <= j

\* BuildMatcher with the exclude files read from the last to the first
BuildMatcherLastFileFirst(fileLines, globPatterns, ic) ==
  LET allPatterns ==
        Flatten([i \in DOMAIN fileLines |->
                   fileLines[Len(fileLines) - i + 1]])
  IN  [ hasGitignore |-> Len(allPatterns) > 0,
        gitignore    |-> CompileIgnoreLines(allPatterns),
        globPatterns |-> globPatterns,
        ignoreCase   |-> ic ]

\* BuildMatcher: the lines of all exclude files in order; a gitignore
\* matcher only when there is at least one line
BuildMatcher(fileLines, globPatterns, ic) ==
  LET allPatterns == Flatten(fileLines) IN
  [ hasGitignore |-> Len(allPatterns) > 0,
    gitignore    |-> CompileIgnoreLines(allPatterns),
    globPatterns |-> globPatterns,
    ignoreCase   |-> ic ]

hasGlobChars(s) == ContainsAny(s, {"*", "?", "["})

excludeMatchPath(pattern, target) == Match(pattern, target)

ReplaceSlash(s) == [i \in DOMAIN s |-> IF s[i] = "/" THEN osSep ELSE s[i]]

\* lower with the flag ignored: nothing is lowercased
lowerNever(m, s) == s

lower(m, s) == IF m.ignoreCase THEN ToLower(s) ELSE s

\* the relative path ShouldExclude works with: filepath.Rel(".", path), or
\* path itself when Rel fails
RelNorm(path) ==
  LET rel     == RelDot(path)
      relPath == IF rel = RelError THEN path ELSE rel
  IN  ReplaceSlash(relPath)

\* GlobPatternVerdict with the basename-only branch applied to directories
\* as well (the !isDir test dropped)
GlobPatternVerdictDirs(m, raw, relCmp, baseCmp, isDir) ==
  LET pat    == TrimSpace(raw)
      patCmp == lower(m, ReplaceSlash(pat))
      dirPat == TrimSuffix(patCmp, <<osSep>>)
  IN  IF pat = <<>> THEN "next"
      ELSE IF HasSuffix(patCmp, <<osSep>>)
      THEN IF ~ hasGlobChars(dirPat) /\ ~ Contains(dirPat, <<osSep>>)
           THEN IF \/ isDir /\ (relCmp = dirPat \/ relCmp = dirPat \o <<osSep>>)
                   \/ HasPrefix(relCmp, dirPat \o <<osSep>>)
                   \/ Contains(relCmp, <<osSep>> \o dirPat \o <<osSep>>)
                THEN "exclude" ELSE "next"
           ELSE IF excludeMatchPath(dirPat \o <<osSep, "*">>, relCmp)
                THEN "exclude" ELSE "next"
      ELSE IF Contains(patCmp, <<osSep>>)
      THEN IF excludeMatchPath(patCmp, relCmp) /\ ~ isDir
           THEN "exclude" ELSE "next"
      ELSE IF excludeMatchPath(patCmp, baseCmp)
           THEN "exclude" ELSE "next"

\* GlobPatternVerdict with the bare directory name looked for anywhere in
\* the path, not between separators
GlobPatternVerdictSubstring(m, raw, relCmp, baseCmp, isDir) ==
  LET pat    == TrimSpace(raw)
      patCmp == lower(m, ReplaceSlash(pat))
      dirPat == TrimSuffix(patCmp, <<osSep>>)
  IN  IF pat = <<>> THEN "next"
      ELSE IF HasSuffix(patCmp, <<osSep>>)
      THEN IF ~ hasGlobChars(dirPat) /\ ~ Contains(dirPat, <<osSep>>)
           THEN IF \/ isDir /\ (relCmp = dirPat \/ relCmp = dirPat \o <<osSep>>)
                   \/ Contains(relCmp, dirPat)
                THEN "exclude" ELSE "next"
           ELSE IF excludeMatchPath(dirPat \o <<osSep, "*">>, relCmp)
                THEN "exclude" ELSE "next"
      ELSE IF Contains(patCmp, <<osSep>>)
      THEN IF excludeMatchPath(patCmp, relCmp) /\ ~ isDir
           THEN "exclude" ELSE "next"
      ELSE IF ~ isDir /\ excludeMatchPath(patCmp, baseCmp)
           THEN "exclude" ELSE "next"

\* one turn of the loop over m.globPatterns: "exclude" for return true,
\* "next" for continue
GlobPatternVerdict(m, raw, relCmp, baseCmp, isDir) ==
  LET pat    == TrimSpace(raw)
      patCmp == lower(m, ReplaceSlash(pat))
      dirPat == TrimSuffix(patCmp, <<osSep>>)
  IN  IF pat = <<>> THEN "next"
      ELSE IF HasSuffix(patCmp, <<osSep>>)
      THEN IF ~ hasGlobChars(dirPat) /\ ~ Contains(dirPat, <<osSep>>)
           THEN IF \/ isDir /\ (relCmp = dirPat \/ relCmp = dirPat \o <<osSep>>)
                   \/ HasPrefix(relCmp, dirPat \o <<osSep>>)
                   \/ Contains(relCmp, <<osSep>> \o dirPat \o <<osSep>>)
                THEN "exclude" ELSE "next"
           ELSE IF excludeMatchPath(dirPat \o <<osSep, "*">>, relCmp)
                THEN "exclude" ELSE "next"
      ELSE IF Contains(patCmp, <<osSep>>)
      THEN IF excludeMatchPath(patCmp, relCmp) /\ ~ isDir
           THEN "exclude" ELSE "next"
      ELSE IF ~ isDir /\ excludeMatchPath(patCmp, baseCmp)
           THEN "exclude" ELSE "next"

RECURSIVE GlobPatternsExclude(_, _, _, _, _)
\* GlobPatternsExclude with "return false" in place of "continue" after a
\* trailing-separator pattern that did not match
GlobPatternsExcludeStopAtDir(m, pats, relCmp, baseCmp, isDir) ==
  IF pats = <<>> THEN FALSE
  ELSE IF GlobPatternVerdict(m, Head(pats), relCmp, baseCmp, isDir) = "exclude"
       THEN TRUE
  ELSE IF HasSuffix(TrimSpace(Head(pats)), <<"/">>) THEN FALSE
  ELSE GlobPatternsExclude(m, Tail(pats), relCmp, baseCmp, isDir)

GlobPatternsExclude(m, pats, relCmp, baseCmp, isDir) ==
  IF pats = <<>> THEN FALSE
  ELSE IF GlobPatternVerdict(m, Head(pats), relCmp, baseCmp, isDir) = "exclude"
       THEN TRUE
  ELSE GlobPatternsExclude(m, Tail(pats), relCmp, baseCmp, isDir)

ShouldExclude(m, path, isDir) ==
  LET relNorm == RelNorm(path)
      base    == Base(relNorm)
      relCmp  == lower(m, relNorm)
      baseCmp == lower(m, base)
  IN  IF m.hasGitignore /\ MatchesPath(m.gitignore, relNorm) THEN TRUE
      ELSE GlobPatternsExclude(m, m.globPatterns, relCmp, baseCmp, isDir)

(***************************************************************************)
(* package collector                                                       *)
(***************************************************************************)
isGlobPattern(path) == ContainsAny(path, {"*", "?", "["})

isDoublestarPattern(pattern) == Contains(pattern, <<"*", "*">>)

hasBraceExpansion(pattern) ==
  Contains(pattern, <<"{">>) /\ Contains(pattern, <<"}">>)

containsAnySep(s) == Contains(s, <<"/">>) \/ Contains(s, <<osSep>>)

matchPath(pattern, target) ==
  IF isDoublestarPattern(pattern) \/ hasBraceExpansion(pattern)
  THEN DoublestarMatch(pattern, target)
  ELSE Match(pattern, target)

\* both walk callbacks: if err != nil { return nil }
walkFnOnError == "nil"

\* filepath.Walk with the exclusion test that opens both walk callbacks:
\* the paths of the files the callback gets past the test with, in visiting
\* order.  An excluded directory returns SkipDir and is not descended into;
\* a directory that cannot be read is handed to the callback with the error
\* and not descended into.
RECURSIVE WalkFiles(_, _, _)
RECURSIVE WalkNames(_, _, _, _)
WalkFiles(fs, m, p) ==
  LET isDir == IsDir(fs, p) IN
  IF isDir /\ ReadDirFails(fs, p) THEN <<>>
  ELSE IF ShouldExclude(m, Abs(p), isDir) THEN <<>>
  ELSE IF ~ isDir THEN <<p>>
  ELSE WalkNames(fs, m, p, ReadDirNames(fs, p))

WalkNames(fs, m, p, names) ==
  IF names = <<>> THEN <<>>
  ELSE WalkFiles(fs, m, Join(p, Head(names)))
         \o WalkNames(fs, m, p, Tail(names))

\* what filepath.Walk(root, callback) returns: when the root cannot be read,
\* what the callback returned for it; the callbacks return nothing but nil
\* and SkipDir for the entries below, and Walk turns SkipDir into nil
WalkReturn(fs, root) ==
  IF ReadDirFails(fs, root) THEN walkFnOnError ELSE "nil"

\* SearchMatched with every pattern tested on the basename
SearchMatchedBasename(pattern, p, ic) ==
  LET patNorm == ReplaceSlash(pattern)
      name    == Base(RelDot(p))
  IN  IF ic THEN matchPath(ToLower(patNorm), ToLower(name))
            ELSE matchPath(patNorm, name)

\* SearchMatched with the ignoreCase flag left out of account
SearchMatchedExactCase(pattern, p, ic) ==
  LET rel     == RelDot(p)
      patNorm == ReplaceSlash(pattern)
  IN  IF containsAnySep(patNorm) \/ isDoublestarPattern(patNorm)
      THEN matchPath(patNorm, rel)
      ELSE matchPath(patNorm, Base(rel))

\* the match test of the search-pattern callback
SearchMatched(pattern, p, ic) ==
  LET rel     == RelDot(p)
      patNorm == ReplaceSlash(pattern)
      name    == Base(rel)
  IN  IF containsAnySep(patNorm) \/ isDoublestarPattern(patNorm)
      THEN IF ic THEN matchPath(ToLower(patNorm), ToLower(rel))
                 ELSE matchPath(patNorm, rel)
      ELSE IF ic THEN matchPath(ToLower(patNorm), ToLower(name))
                 ELSE matchPath(patNorm, name)

\* AddUnseen without the seen test
AddAlways(acc, absPath) ==
  [acc EXCEPT !.result = Append(@, absPath), !.seen = @ \cup {absPath}]

\* if !seen[absPath] { result = append(result, absPath); seen[absPath] = true }
AddUnseen(acc, absPath) ==
  IF absPath \in acc.seen THEN acc
  ELSE [acc EXCEPT !.result = Append(@, absPath), !.seen = @ \cup {absPath}]

RECURSIVE AddAll(_, _)
AddAll(acc, ps) ==
  IF ps = <<>> THEN acc ELSE AddAll(AddUnseen(acc, Abs(Head(ps))), Tail(ps))

\* AddLiteral without the ShouldExclude test
AddLiteralUnchecked(acc, m, path) == AddUnseen(acc, Abs(path))

\* the literal-file branch
AddLiteral(acc, m, path) ==
  IF ~ ShouldExclude(m, Abs(path), FALSE) THEN AddUnseen(acc, Abs(path))
  ELSE acc

\* the body of the loop over paths
CollectOne(acc, fs, m, path, ic) ==
  IF Exists(fs, path)
  THEN IF IsDir(fs, path)
       THEN AddAll(acc, WalkFiles(fs, m, path))
       ELSE AddLiteral(acc, m, path)
  ELSE IF isGlobPattern(path)
       THEN AddAll(acc, SelectSeq(WalkFiles(fs, m, Dot),
                                  LAMBDA p : SearchMatched(path, p, ic)))
  ELSE [acc EXCEPT !.warnings = Append(@, path)]

RECURSIVE CollectLoop(_, _, _, _, _)
\* CollectLoop that returns at the first token CollectOne warns about
CollectLoopStopAtWarning(acc, fs, m, paths, ic) ==
  IF paths = <<>> THEN acc
  ELSE LET next == CollectOne(acc, fs, m, Head(paths), ic) IN
       IF next.warnings # acc.warnings THEN next
       ELSE CollectLoop(next, fs, m, Tail(paths), ic)

\* CollectLoop that returns after the first token that added a file
CollectLoopUntilFound(acc, fs, m, paths, ic) ==
  IF paths = <<>> THEN acc
  ELSE LET next == CollectOne(acc, fs, m, Head(paths), ic) IN
       IF next.result # acc.result THEN next
       ELSE CollectLoop(next, fs, m, Tail(paths), ic)

CollectLoop(acc, fs, m, paths, ic) ==
  IF paths = <<>> THEN acc
  ELSE CollectLoop(CollectOne(acc, fs, m, Head(paths), ic),
                   fs, m, Tail(paths), ic)

CollectFiles(fs, paths, m, ic) ==
  CollectLoop([result |-> <<>>, seen |-> {}, warnings |-> <<>>],
              fs, m, paths, ic)

\* if err != nil { return nil, err } after either walk: the place in paths
\* of the first token whose walk returned an error, 0 when there is none
CollectFilesError(fs, paths) ==
  LET failed ==
        { i \in DOMAIN paths :
            IF Exists(fs, paths[i])
            THEN IsDir(fs, paths[i]) /\ WalkReturn(fs, paths[i]) # "nil"
            ELSE isGlobPattern(paths[i]) /\ WalkReturn(fs, Dot) # "nil" }
  IN  IF failed = {} THEN 0
      ELSE CHOOSE i \in failed : \A j \in failed : i <= j


(***************************************************************************)
(* package output, and the text Run assembles.  Text is a sequence of      *)
(* characters with "\n" ending each line.  A local variable v := e of the  *)
(* code that is read more than once is written                             *)
(*   CHOOSE r \in { body : v \in {e} } : TRUE                              *)
(* which is body with v standing for the value of e.                       *)
(***************************************************************************)
NL == "\n"

\* strings.Repeat
Repeat(c, n) == [i \in 1..n |-> c]

\* fmt's %d for a natural number
Digits == <<"0", "1", "2", "3", "4", "5", "6", "7", "8", "9">>

RECURSIVE Itoa(_)
Itoa(n) ==
  IF n < 10 THEN <<Digits[n + 1]>>
  ELSE Itoa(n \div 10) \o <<Digits[(n % 10) + 1]>>

\* the non-empty segments of a cleaned path
Segs(p) == CleanSegs(Split(p), <<>>, IsAbs(p))

\* filepath.Rel: an error (RelError) when one path is rooted and the other
\* is not, or when the way from base up to the common part is unknown
Rel(basepath, targpath) ==
  LET bs == Segs(basepath)
      ts == Segs(targpath)
      common == { k \in 0..Len(bs) : k <= Len(ts) /\ Take(bs, k) = Take(ts, k) }
      k0 == CHOOSE k \in common : \A j \in common : j <= k
      up == [i \in 1..(Len(bs) - k0) |-> <<".", ".">>]
      res == up \o Drop(ts, k0)
  IN  IF IsAbs(basepath) # IsAbs(targpath) THEN RelError
      ELSE IF \E i \in (k0 + 1)..Len(bs) : bs[i] = <<".", ".">> THEN RelError
      ELSE IF res = <<>> THEN <<".">>
      ELSE JoinSegs(res)

\* output.WriteHeader
WriteHeader(path) ==
  LET bar == Repeat("=", Len(path))
  IN  bar \o <<NL>> \o path \o <<NL>> \o bar \o <<NL, NL>>

\* the bytes of a file of the tree: every file holds "#" and its own name,
\* without a final newline
FileBytes(key) == <<"#">> \o key

\* output.WriteFileContent: the bytes written, or the error value
\* OpenError when the file cannot be opened
OpenError == <<"\\", "o">>

\* WriteFileContent when os.Open never fails
WriteFileContentOpensAll(unreadable, absPath) == FileBytes(FsKey(absPath))

WriteFileContent(unreadable, absPath) ==
  IF FsKey(absPath) \in unreadable THEN OpenError
  ELSE FileBytes(FsKey(absPath))

\* output.getRelativePath: the loop over roots
RECURSIVE BestRoot(_, _, _)
BestRoot(file, roots, best) ==
  IF roots = <<>> THEN best
  ELSE LET root == Head(roots)
       IN  CHOOSE r \in
             { IF /\ ~ isGlobPattern(root)
                  /\ HasPrefix(file, absRoot)
                  /\ Len(absRoot) > Len(best.root)
               THEN BestRoot(file, Tail(roots),
                             [root |-> absRoot, label |-> root])
               ELSE BestRoot(file, Tail(roots), best) :
               absRoot \in {Abs(root)} } : TRUE

\* a failed filepath.Rel leaves the empty string in rel
RelOrEmpty(basepath, targpath) ==
  LET r == Rel(basepath, targpath) IN IF r = RelError THEN <<>> ELSE r

\* output.getRelativePath, as the pair << label, rel >> that WriteTree
\* splits the result into at the first ":"
getRelativePath(file, roots) ==
  CHOOSE r \in
    { << Take(text, IndexOf(text, ":") - 1), Drop(text, IndexOf(text, ":")) >> :
      text \in
        { IF best.root # <<>>
          THEN best.label \o <<":">> \o RelOrEmpty(best.root, file)
          ELSE <<".", ":">> \o RelOrEmpty(<<".">>, file) :
          best \in {BestRoot(file, roots, [root |-> <<>>, label |-> <<>>])} }
    } : TRUE

\* WriteTree: the labels of the groups in the order they first appear
RECURSIVE GroupOrder(_, _, _)
GroupOrder(files, roots, order) ==
  IF files = <<>> THEN order
  ELSE CHOOSE r \in
         { GroupOrder(Tail(files), roots,
                      IF root \in Range(order) THEN order
                      ELSE Append(order, root)) :
           root \in {getRelativePath(Head(files), roots)[1]} } : TRUE

\* WriteTree: groups[root].files
GroupFiles(files, roots, root) ==
  CHOOSE r \in
    { LET mine == SelectSeq(all, LAMBDA p : p[1] = root)
      IN  [i \in DOMAIN mine |-> mine[i][2]] :
      all \in {[i \in DOMAIN files |-> getRelativePath(files[i], roots)]} }
    : TRUE

\* WriteTree: the lines for the directories above one file that were not
\* printed before, and the directories seen afterwards
RECURSIVE TreeDirLines(_, _, _, _)
TreeDirLines(parts, i, seenDirs, text) ==
  IF i > Len(parts) - 1 THEN [seenDirs |-> seenDirs, text |-> text]
  ELSE LET accum == JoinSegs(Take(parts, i))
       IN  IF accum \in seenDirs
           THEN TreeDirLines(parts, i + 1, seenDirs, text)
           ELSE TreeDirLines(parts, i + 1, seenDirs \cup {accum},
                             text \o Repeat("-", i) \o parts[i]
                                  \o <<osSep, NL>>)

\* WriteTree: the loop over the files of one group
RECURSIVE TreeFileLines(_, _, _)
TreeFileLines(relPaths, seenDirs, text) ==
  IF relPaths = <<>> THEN text
  ELSE LET parts == Split(Head(relPaths))
       IN  CHOOSE r \in
             { TreeFileLines(Tail(relPaths), d.seenDirs,
                             d.text \o Repeat("-", Len(parts))
                                    \o parts[Len(parts)] \o <<NL>>) :
               d \in {TreeDirLines(parts, 1, seenDirs, text)} } : TRUE

\* WriteTree: the loop over the groups
RECURSIVE TreeGroups(_, _, _, _)
TreeGroups(order, i, files, roots) ==
  IF i > Len(order) THEN <<>>
  ELSE LET rootKey == order[i]
           label   == IF rootKey = <<".">> THEN <<".">> ELSE Base(rootKey)
       IN  (IF i > 1 THEN <<NL>> ELSE <<>>)
           \o label \o <<osSep, NL>>
           \o (CHOOSE r \in
                 { TreeFileLines(relPaths, {}, <<>>) :
                   relPaths \in {GroupFiles(files, roots, rootKey)} } : TRUE)
           \o TreeGroups(order, i + 1, files, roots)

\* output.WriteTree
WriteTree(roots, files) ==
  CHOOSE r \in
    { TreeGroups(order, 1, files, roots) :
      order \in {GroupOrder(files, roots, <<>>)} } : TRUE

\* Run: the part of outputBuf written for one file
FileSection(unreadable, file) ==
  LET content == WriteFileContent(unreadable, file)
  IN  WriteHeader(file)
      \o (IF content = OpenError
          THEN <<"[", "u", "n", "r", "e", "a", "d", "a", "b", "l", "e", "]", NL>>
          ELSE content)
      \o <<NL>>

RECURSIVE FileSections(_, _)
FileSections(unreadable, files) ==
  IF files = <<>> THEN <<>>
  ELSE FileSection(unreadable, Head(files))
         \o FileSections(unreadable, Tail(files))

\* BuildOutput with the file sections written in every mode
BuildOutputWithFiles(unreadable, roots, files, st, ot) ==
  (IF st
   THEN WriteHeader(<<"F", "I", "L", "E", " ", "H", "I", "E", "R", "A", "R", "C", "H", "Y">>) \o WriteTree(roots, files) \o <<NL>>
   ELSE <<>>)
  \o FileSections(unreadable, files)

\* Run: outputBuf as it stands before the clipboard is called
BuildOutput(unreadable, roots, files, st, ot) ==
  (IF st
   THEN WriteHeader(<<"F", "I", "L", "E", " ", "H", "I", "E", "R", "A", "R", "C", "H", "Y">>) \o WriteTree(roots, files) \o <<NL>>
   ELSE <<>>)
  \o (IF ~ ot THEN FileSections(unreadable, files) ELSE <<>>)

\* Run: the success message
SuccessMessage(n, ot) ==
  IF ot
  THEN <<"C", "o", "p", "i", "e", "d", " ", "f", "i", "l", "e", " ", "h", "i", "e", "r", "a", "r", "c", "h", "y", " ", "f", "o", "r", " ">> \o Itoa(n) \o <<" ", "f", "i", "l", "e", "s", " ", "t", "o", " ", "c", "l", "i", "p", "b", "o", "a", "r", "d", ".">> \o <<NL>>
  ELSE <<"C", "o", "p", "i", "e", "d", " ">> \o Itoa(n) \o <<" ", "f", "i", "l", "e", "s", " ", "t", "o", " ", "c", "l", "i", "p", "b", "o", "a", "r", "d", ".">> \o <<NL>>

(***************************************************************************)
(* package clipcat: ParseArgs.  The loop over os.Args[1:] works on a       *)
(* record of the Config built so far, the index i (counted from 1) and     *)
(* exit, which is <<>> while the process runs and << code >> once os.Exit  *)
(* was called.                                                             *)
(***************************************************************************)
EmptyConfig ==
  [ Paths |-> <<>>, Excludes |-> <<>>, ExcludeFiles |-> <<>>,
    ShowTree |-> FALSE, OnlyTree |-> FALSE, PrintOut |-> FALSE,
    IgnoreCase |-> FALSE ]

\* ParseArg with the boolean flags honoured only before the first path
ParseArgFlagsBeforePaths(st, args) ==
  LET arg == args[st.i] IN
  IF arg \in {<<"-", "h">>, <<"-", "-", "h", "e", "l", "p">>} THEN [st EXCEPT !.exit = <<0>>]
  ELSE IF arg \in {<<"-", "e">>, <<"-", "-", "e", "x", "c", "l", "u", "d", "e">>}
       THEN IF st.i + 1 > Len(args) THEN [st EXCEPT !.exit = <<2>>]
            ELSE [st EXCEPT !.cfg.Excludes = Append(@, args[st.i + 1]),
                            !.i = @ + 2]
  ELSE IF arg = <<"-", "-", "e", "x", "c", "l", "u", "d", "e", "-", "f", "r", "o", "m">>
       THEN IF st.i + 1 > Len(args) THEN [st EXCEPT !.exit = <<2>>]
            ELSE [st EXCEPT !.cfg.ExcludeFiles = Append(@, args[st.i + 1]),
                            !.i = @ + 2]
  ELSE IF arg \in {<<"-", "t">>, <<"-", "-", "t", "r", "e", "e">>}
       THEN [st EXCEPT !.cfg.ShowTree = (st.cfg.Paths = <<>>) \/ @,
                       !.i = @ + 1]
  ELSE IF arg = <<"-", "-", "o", "n", "l", "y", "-", "t", "r", "e", "e">>
       THEN [st EXCEPT !.cfg.ShowTree = (st.cfg.Paths = <<>>) \/ @,
                       !.cfg.OnlyTree = (st.cfg.Paths = <<>>) \/ @,
                       !.i = @ + 1]
  ELSE IF arg \in {<<"-", "p">>, <<"-", "-", "p", "r", "i", "n", "t">>}
       THEN [st EXCEPT !.cfg.PrintOut = (st.cfg.Paths = <<>>) \/ @,
                       !.i = @ + 1]
  ELSE IF arg \in {<<"-", "i">>, <<"-", "-", "i", "g", "n", "o", "r", "e", "-", "c", "a", "s", "e">>}
       THEN [st EXCEPT !.cfg.IgnoreCase = (st.cfg.Paths = <<>>) \/ @,
                       !.i = @ + 1]
  ELSE IF HasPrefix(arg, <<"-">>) THEN [st EXCEPT !.exit = <<2>>]
  ELSE [st EXCEPT !.cfg.Paths = Append(@, arg), !.i = @ + 1]

\* ParseArgs: the switch on args[i], with the i++ of the loop
ParseArg(st, args) ==
  LET arg == args[st.i] IN
  IF arg \in {<<"-", "h">>, <<"-", "-", "h", "e", "l", "p">>} THEN [st EXCEPT !.exit = <<0>>]
  ELSE IF arg \in {<<"-", "e">>, <<"-", "-", "e", "x", "c", "l", "u", "d", "e">>}
       THEN IF st.i + 1 > Len(args) THEN [st EXCEPT !.exit = <<2>>]
            ELSE [st EXCEPT !.cfg.Excludes = Append(@, args[st.i + 1]),
                            !.i = @ + 2]
  ELSE IF arg = <<"-", "-", "e", "x", "c", "l", "u", "d", "e", "-", "f", "r", "o", "m">>
       THEN IF st.i + 1 > Len(args) THEN [st EXCEPT !.exit = <<2>>]
            ELSE [st EXCEPT !.cfg.ExcludeFiles = Append(@, args[st.i + 1]),
                            !.i = @ + 2]
  ELSE IF arg \in {<<"-", "t">>, <<"-", "-", "t", "r", "e", "e">>}
       THEN [st EXCEPT !.cfg.ShowTree = TRUE, !.i = @ + 1]
  ELSE IF arg = <<"-", "-", "o", "n", "l", "y", "-", "t", "r", "e", "e">>
       THEN [st EXCEPT !.cfg.ShowTree = TRUE, !.cfg.OnlyTree = TRUE,
                       !.i = @ + 1]
  ELSE IF arg \in {<<"-", "p">>, <<"-", "-", "p", "r", "i", "n", "t">>}
       THEN [st EXCEPT !.cfg.PrintOut = TRUE, !.i = @ + 1]
  ELSE IF arg \in {<<"-", "i">>, <<"-", "-", "i", "g", "n", "o", "r", "e", "-", "c", "a", "s", "e">>}
       THEN [st EXCEPT !.cfg.IgnoreCase = TRUE, !.i = @ + 1]
  ELSE IF HasPrefix(arg, <<"-">>) THEN [st EXCEPT !.exit = <<2>>]
  ELSE [st EXCEPT !.cfg.Paths = Append(@, arg), !.i = @ + 1]

\* ParseArgs: for i := 0; i < len(args); i++
RECURSIVE ParseLoop(_, _)
ParseLoop(st, args) ==
  IF st.exit # <<>> \/ st.i > Len(args) THEN st
  ELSE CHOOSE r \in { ParseLoop(next, args) : next \in {ParseArg(st, args)} }
         : TRUE

\* ParseArgs without the test for an empty Paths
ParseArgsAnyPaths(args) ==
  ParseLoop([cfg |-> EmptyConfig, i |-> 1, exit |-> <<>>], args)

\* ParseArgs: the Config returned, or the code the process exited with
ParseArgs(args) ==
  LET st == ParseLoop([cfg |-> EmptyConfig, i |-> 1, exit |-> <<>>], args)
  IN  IF st.exit # <<>> THEN st
      ELSE IF Len(st.cfg.Paths) = 0 THEN [st EXCEPT !.exit = <<2>>]
      ELSE st

(***************************************************************************)
(* Inputs.  Each universe is a tree below the working directory together   *)
(* with the command-line tokens, ad-hoc exclude patterns (-e) and exclude  *)
(* files (--exclude-from, given by their lines) a run may be started with. *)
(***************************************************************************)
MaxTokens == 2

MaxExcludes == 1

MaxExcludeFiles == 1

SeqsUpTo(S, n) == UNION { [1..k -> S] : k \in 0..n }

\* Config.ShowTree, Config.OnlyTree, Config.PrintOut
AllFlags == [showTree : BOOLEAN, onlyTree : BOOLEAN, printOut : BOOLEAN]

\* clipcat -p <paths>
PrintFlags == [showTree |-> FALSE, onlyTree |-> FALSE, printOut |-> TRUE]

\* main.go, main_test.go, pkg/x.go
TreeGo ==
  [ files |-> {<<"m", "a", "i", "n", ".", "g", "o">>, <<"m", "a", "i", "n", "_", "t", "e", "s", "t", ".", "g", "o">>, <<"p", "k", "g", "/", "x", ".", "g", "o">>},
    dirs  |-> {<<"p", "k", "g">>} ]

\* src/app.go, src/sub/util.go, src/sub/.hidden
TreeSrc ==
  [ files |-> {<<"s", "r", "c", "/", "a", "p", "p", ".", "g", "o">>, <<"s", "r", "c", "/", "s", "u", "b", "/", "u", "t", "i", "l", ".", "g", "o">>, <<"s", "r", "c", "/", "s", "u", "b", "/", ".", "h", "i", "d", "d", "e", "n">>},
    dirs  |-> {<<"s", "r", "c">>, <<"s", "r", "c", "/", "s", "u", "b">>} ]

\* test.go, a.go, a/test.go, b/test.go, clipcat/clipcat, clipcat/main.go
TreeTest ==
  [ files |-> {<<"t", "e", "s", "t", ".", "g", "o">>, <<"a", ".", "g", "o">>, <<"a", "/", "t", "e", "s", "t", ".", "g", "o">>, <<"b", "/", "t", "e", "s", "t", ".", "g", "o">>,
               <<"c", "l", "i", "p", "c", "a", "t", "/", "c", "l", "i", "p", "c", "a", "t">>, <<"c", "l", "i", "p", "c", "a", "t", "/", "m", "a", "i", "n", ".", "g", "o">>},
    dirs  |-> {<<"a">>, <<"b">>, <<"c", "l", "i", "p", "c", "a", "t">>} ]

\* keep.log, debug.log, a.tmp, keep.txt, build/out.txt
TreeLog ==
  [ files |-> {<<"k", "e", "e", "p", ".", "l", "o", "g">>, <<"d", "e", "b", "u", "g", ".", "l", "o", "g">>, <<"a", ".", "t", "m", "p">>, <<"k", "e", "e", "p", ".", "t", "x", "t">>,
               <<"b", "u", "i", "l", "d", "/", "o", "u", "t", ".", "t", "x", "t">>},
    dirs  |-> {<<"b", "u", "i", "l", "d">>} ]

\* a.txt, d/b.txt, d/c.txt; d/c.txt cannot be opened when its content is
\* copied
TreeOut ==
  [ files |-> {<<"a", ".", "t", "x", "t">>, <<"d", "/", "b", ".", "t", "x", "t">>, <<"d", "/", "c", ".", "t", "x", "t">>},
    dirs  |-> {<<"d">>} ]

\* runs with every combination of -t, --only-tree and -p, with an exclude
\* file that cannot be opened and one that can
OutUniverse ==
  [ fs         |-> TreeOut,
    tokens     |-> {<<".">>, <<"d">>, <<"*", ".", "t", "x", "t">>},
    excludes   |-> {},
    files      |-> { CannotOpen, << <<"b", ".", "t", "x", "t">> >> },
    ignoreCase |-> {FALSE},
    flags      |-> AllFlags,
    unreadable |-> {<<"d", "/", "c", ".", "t", "x", "t">>} ]

\* a.txt and the empty directory e: runs in which nothing is collected
\* because a token names nothing, names an empty directory or names an
\* excluded file
EmptyUniverse ==
  [ fs         |-> [ files |-> {<<"a", ".", "t", "x", "t">>}, dirs |-> {<<"e">>} ],
    tokens     |-> {<<"e">>, <<"m", "i", "s", "s", "i", "n", "g">>, <<"a", ".", "t", "x", "t">>},
    excludes   |-> {<<"a", ".", "t", "x", "t">>},
    files      |-> {},
    ignoreCase |-> {FALSE},
    flags      |-> AllFlags,
    unreadable |-> {} ]

Universes ==
  { [ fs         |-> TreeGo,
      tokens     |-> {<<"*", "*", "/", "*", ".", "g", "o">>, <<"p", "k", "g">>},
      excludes   |-> {<<"*", "*", "/", "*", "_", "t", "e", "s", "t", ".", "g", "o">>, <<"*", "_", "t", "e", "s", "t", ".", "g", "o">>},
      files      |-> {},
      ignoreCase |-> BOOLEAN,
      flags      |-> {PrintFlags},
      unreadable |-> {} ],
    [ fs         |-> TreeSrc,
      tokens     |-> {<<"s", "r", "c">>, <<"*", "*", "/", "*", ".", "g", "o">>},
      excludes   |-> {<<"*", "*", "/", "s", "u", "b", "/">>, <<"s", "u", "b", "/">>, <<"s", "r", "c", "/", "s", "u", "b", "/">>},
      files      |-> {},
      ignoreCase |-> {FALSE},
      flags      |-> {PrintFlags},
      unreadable |-> {} ],
    [ fs         |-> TreeTest,
      tokens     |-> {<<".">>, <<"a", "/", "t", "e", "s", "t", ".", "g", "o">>, <<"*", ".", "g", "o">>},
      excludes   |-> {<<"t", "e", "s", "t", ".", "g", "o">>, <<"a", "/", "t", "e", "s", "t", ".", "g", "o">>, <<"c", "l", "i", "p", "c", "a", "t">>, <<"c", "l", "i", "p", "c", "a", "t", "/">>},
      files      |-> {},
      ignoreCase |-> {FALSE},
      flags      |-> {PrintFlags},
      unreadable |-> {} ],
    [ fs         |-> TreeLog,
      tokens     |-> {<<".">>, <<"*", ".", "l", "o", "g">>},
      excludes   |-> {<<"*", ".", "t", "m", "p">>, <<"b", "u", "i", "l", "d", "/">>},
      files      |-> { <<<<"*", ".", "l", "o", "g">>>>, <<<<"!", "k", "e", "e", "p", ".", "l", "o", "g">>>>,
                       <<<<"b", "u", "i", "l", "d", "/">>, <<"*", ".", "t", "m", "p">>>> },
      ignoreCase |-> {FALSE},
      flags      |-> {PrintFlags},
      unreadable |-> {} ],
    OutUniverse,
    EmptyUniverse }

(***************************************************************************)
(* Inputs of the exclusion scenarios: trees with names in several letter   *)
(* cases, with anchored rules and with directory names that contain one    *)
(* another.                                                                *)
(***************************************************************************)
\* x.LOG, x.log, x.Log, TeMp/file.txt, temp/file.txt, TEMP/file.txt
TreeCase ==
  [ files |-> {<<"x", ".", "L", "O", "G">>, <<"x", ".", "l", "o", "g">>, <<"x", ".", "L", "o", "g">>, <<"T", "e", "M", "p", "/", "f", "i", "l", "e", ".", "t", "x", "t">>,
               <<"t", "e", "m", "p", "/", "f", "i", "l", "e", ".", "t", "x", "t">>, <<"T", "E", "M", "P", "/", "f", "i", "l", "e", ".", "t", "x", "t">>},
    dirs  |-> {<<"T", "e", "M", "p">>, <<"t", "e", "m", "p">>, <<"T", "E", "M", "P">>} ]

CaseUniverse ==
  [ fs         |-> TreeCase,
    tokens     |-> {<<".">>},
    excludes   |-> {<<"*", ".", "L", "O", "G">>, <<"T", "e", "M", "p", "/">>},
    files      |-> {},
    ignoreCase |-> BOOLEAN,
    flags      |-> {PrintFlags},
    unreadable |-> {} ]

\* the tree of TreeLog with rule files that negate: *.log then !keep.log,
\* the same two in the other order, and a third rule that matches again
NegationUniverse ==
  [ fs         |-> TreeLog,
    tokens     |-> {<<".">>},
    excludes   |-> {},
    files      |-> { << <<"*", ".", "l", "o", "g">>, <<"!", "k", "e", "e", "p", ".", "l", "o", "g">> >>,
                     << <<"!", "k", "e", "e", "p", ".", "l", "o", "g">>, <<"*", ".", "l", "o", "g">> >>,
                     << <<"#", " ", "l", "o", "g", "s">>, <<"*", ".", "l", "o", "g">>, <<"!", "k", "e", "e", "p", ".", "l", "o", "g">>, <<"k", "e", "e", "p", ".", "*">> >> },
    ignoreCase |-> {FALSE},
    flags      |-> {PrintFlags},
    unreadable |-> {} ]

\* root.txt, src/root.txt, src/deep/root.txt
TreeRoot ==
  [ files |-> {<<"r", "o", "o", "t", ".", "t", "x", "t">>, <<"s", "r", "c", "/", "r", "o", "o", "t", ".", "t", "x", "t">>, <<"s", "r", "c", "/", "d", "e", "e", "p", "/", "r", "o", "o", "t", ".", "t", "x", "t">>},
    dirs  |-> {<<"s", "r", "c">>, <<"s", "r", "c", "/", "d", "e", "e", "p">>} ]

AnchorUniverse ==
  [ fs         |-> TreeRoot,
    tokens     |-> {<<".">>, <<"s", "r", "c">>},
    excludes   |-> {},
    files      |-> { << <<"/", "r", "o", "o", "t", ".", "t", "x", "t">> >> },
    ignoreCase |-> {FALSE},
    flags      |-> {PrintFlags},
    unreadable |-> {} ]

\* dist/main.js, src/cache/file.dat, dist_old/file.js, mydist/build.js and
\* the empty directory distribution
TreeDist ==
  [ files |-> {<<"d", "i", "s", "t", "/", "m", "a", "i", "n", ".", "j", "s">>, <<"s", "r", "c", "/", "c", "a", "c", "h", "e", "/", "f", "i", "l", "e", ".", "d", "a", "t">>, <<"d", "i", "s", "t", "_", "o", "l", "d", "/", "f", "i", "l", "e", ".", "j", "s">>,
               <<"m", "y", "d", "i", "s", "t", "/", "b", "u", "i", "l", "d", ".", "j", "s">>},
    dirs  |-> {<<"d", "i", "s", "t">>, <<"s", "r", "c">>, <<"s", "r", "c", "/", "c", "a", "c", "h", "e">>, <<"d", "i", "s", "t", "_", "o", "l", "d">>, <<"m", "y", "d", "i", "s", "t">>,
               <<"d", "i", "s", "t", "r", "i", "b", "u", "t", "i", "o", "n">>} ]

SegmentUniverse ==
  [ fs         |-> TreeDist,
    tokens     |-> {<<".">>},
    excludes   |-> {<<"d", "i", "s", "t", "/">>, <<"c", "a", "c", "h", "e", "/">>},
    files      |-> {},
    ignoreCase |-> {FALSE},
    flags      |-> {PrintFlags},
    unreadable |-> {} ]

ExcludeUniverses ==
  { CaseUniverse, NegationUniverse, AnchorUniverse, SegmentUniverse }

(***************************************************************************)
(* Inputs of the token scenarios: tokens that name nothing, brace tokens,  *)
(* search patterns with and without separators, recursive patterns and     *)
(* names in several letter cases.                                          *)
(***************************************************************************)
\* main.go, util.go, other.go, lib/util.go
TreeBrace ==
  [ files |-> {<<"m", "a", "i", "n", ".", "g", "o">>, <<"u", "t", "i", "l", ".", "g", "o">>, <<"o", "t", "h", "e", "r", ".", "g", "o">>, <<"l", "i", "b", "/", "u", "t", "i", "l", ".", "g", "o">>},
    dirs  |-> {<<"l", "i", "b">>} ]

TokenUniverse ==
  [ fs         |-> TreeBrace,
    tokens     |-> {<<"m", "i", "s", "s", "i", "n", "g", ".", "t", "x", "t">>, <<"/", "n", "o", "/", "s", "u", "c", "h">>, <<"m", "a", "i", "n", ".", "g", "o">>, <<"l", "i", "b">>,
                    <<"{", "m", "a", "i", "n", ",", "u", "t", "i", "l", "}", ".", "g", "o">>},
    excludes   |-> {},
    files      |-> {},
    ignoreCase |-> {FALSE},
    flags      |-> {PrintFlags},
    unreadable |-> {} ]

\* README.md, docs/README.md, src/a.go, src/in/b.go, level1/deep.txt,
\* level1/level2/level3/deep.txt
TreeDepth ==
  [ files |-> {<<"R", "E", "A", "D", "M", "E", ".", "m", "d">>, <<"d", "o", "c", "s", "/", "R", "E", "A", "D", "M", "E", ".", "m", "d">>, <<"s", "r", "c", "/", "a", ".", "g", "o">>, <<"s", "r", "c", "/", "i", "n", "/", "b", ".", "g", "o">>,
               <<"l", "e", "v", "e", "l", "1", "/", "d", "e", "e", "p", ".", "t", "x", "t">>, <<"l", "e", "v", "e", "l", "1", "/", "l", "e", "v", "e", "l", "2", "/", "l", "e", "v", "e", "l", "3", "/", "d", "e", "e", "p", ".", "t", "x", "t">>},
    dirs  |-> {<<"d", "o", "c", "s">>, <<"s", "r", "c">>, <<"s", "r", "c", "/", "i", "n">>, <<"l", "e", "v", "e", "l", "1">>, <<"l", "e", "v", "e", "l", "1", "/", "l", "e", "v", "e", "l", "2">>,
               <<"l", "e", "v", "e", "l", "1", "/", "l", "e", "v", "e", "l", "2", "/", "l", "e", "v", "e", "l", "3">>} ]

DepthUniverse ==
  [ fs         |-> TreeDepth,
    tokens     |-> {<<"*", ".", "m", "d">>, <<"s", "r", "c", "/", "*", ".", "g", "o">>, <<"l", "e", "v", "e", "l", "1", "/", "*", "/", "l", "e", "v", "e", "l", "3", "/", "d", "e", "e", "p", ".", "t", "x", "t">>},
    excludes   |-> {<<"d", "o", "c", "s", "/">>},
    files      |-> {},
    ignoreCase |-> {FALSE},
    flags      |-> {PrintFlags},
    unreadable |-> {} ]

\* main.go, a/b/main.go, components/c.go, ui/components/d.go,
\* ui/components/sub/e.go
TreeStar ==
  [ files |-> {<<"m", "a", "i", "n", ".", "g", "o">>, <<"a", "/", "b", "/", "m", "a", "i", "n", ".", "g", "o">>, <<"c", "o", "m", "p", "o", "n", "e", "n", "t", "s", "/", "c", ".", "g", "o">>,
               <<"u", "i", "/", "c", "o", "m", "p", "o", "n", "e", "n", "t", "s", "/", "d", ".", "g", "o">>, <<"u", "i", "/", "c", "o", "m", "p", "o", "n", "e", "n", "t", "s", "/", "s", "u", "b", "/", "e", ".", "g", "o">>},
    dirs  |-> {<<"a">>, <<"a", "/", "b">>, <<"c", "o", "m", "p", "o", "n", "e", "n", "t", "s">>, <<"u", "i">>, <<"u", "i", "/", "c", "o", "m", "p", "o", "n", "e", "n", "t", "s">>,
               <<"u", "i", "/", "c", "o", "m", "p", "o", "n", "e", "n", "t", "s", "/", "s", "u", "b">>} ]

StarUniverse ==
  [ fs         |-> TreeStar,
    tokens     |-> {<<"*", "*", "/", "*", ".", "g", "o">>, <<"*", "*", "/", "c", "o", "m", "p", "o", "n", "e", "n", "t", "s", "/", "*", ".", "g", "o">>},
    excludes   |-> {},
    files      |-> {},
    ignoreCase |-> {FALSE},
    flags      |-> {PrintFlags},
    unreadable |-> {} ]

\* TestFile.go, testfile.txt, TESTFILE.md, MyTest.go, other.go
TreeNames ==
  [ files |-> {<<"T", "e", "s", "t", "F", "i", "l", "e", ".", "g", "o">>, <<"t", "e", "s", "t", "f", "i", "l", "e", ".", "t", "x", "t">>, <<"T", "E", "S", "T", "F", "I", "L", "E", ".", "m", "d">>, <<"M", "y", "T", "e", "s", "t", ".", "g", "o">>,
               <<"o", "t", "h", "e", "r", ".", "g", "o">>},
    dirs  |-> {} ]

NamesUniverse ==
  [ fs         |-> TreeNames,
    tokens     |-> {<<"*", ".", "G", "O">>, <<"*", "T", "E", "S", "T", "*">>, <<"*", "t", "e", "s", "t", "*">>},
    excludes   |-> {},
    files      |-> {},
    ignoreCase |-> BOOLEAN,
    flags      |-> {PrintFlags},
    unreadable |-> {} ]

\* trees with directories that cannot be read: priv and pub/in below a
\* working directory that can, and the working directory itself
DeniedUniverses ==
  { [ fs         |-> [ files  |-> {<<"t", "o", "p", ".", "t", "x", "t">>, <<"p", "r", "i", "v", "/", "s", ".", "t", "x", "t">>, <<"p", "u", "b", "/", "a", ".", "t", "x", "t">>, <<"p", "u", "b", "/", "i", "n", "/", "b", ".", "t", "x", "t">>},
                       dirs   |-> {<<"p", "r", "i", "v">>, <<"p", "u", "b">>, <<"p", "u", "b", "/", "i", "n">>},
                       denied |-> {<<"p", "r", "i", "v">>, <<"p", "u", "b", "/", "i", "n">>} ],
      tokens     |-> {<<"p", "r", "i", "v">>, <<"p", "u", "b">>, <<"*", ".", "t", "x", "t">>},
      excludes   |-> {},
      files      |-> {},
      ignoreCase |-> {FALSE},
      flags      |-> {PrintFlags},
      unreadable |-> {} ],
    [ fs         |-> [ files  |-> {<<"a", ".", "t", "x", "t">>},
                       dirs   |-> {},
                       denied |-> {Dot} ],
      tokens     |-> {<<".">>, <<"*", ".", "t", "x", "t">>},
      excludes   |-> {},
      files      |-> {},
      ignoreCase |-> {FALSE},
      flags      |-> {PrintFlags},
      unreadable |-> {} ] }

SearchUniverses ==
  { TokenUniverse, DepthUniverse, StarUniverse, NamesUniverse }
    \cup DeniedUniverses

(***************************************************************************)
(* State                                                                   *)
(***************************************************************************)
VARIABLES
  fs,            \* the tree below the working directory
  universe,      \* the universe the run was drawn from
  paths,         \* Config.Paths
  excludes,      \* Config.Excludes
  excludeFiles,  \* Config.ExcludeFiles, each file given by its lines
  ignoreCase,    \* Config.IgnoreCase
  matcher,       \* the *ExcludeMatcher BuildMatcher returned
  files,         \* Run's files
  warnings,      \* the tokens CollectFiles warned about on stderr
  pc,            \* where Run, or the caller of ShouldExclude, stands
  probePath,     \* the path of the last direct ShouldExclude call
  probeIsDir,    \* its isDir argument
  probeAns,      \* its answer
  showTree,      \* Config.ShowTree
  onlyTree,      \* Config.OnlyTree
  printOut,      \* Config.PrintOut
  outputBuf,     \* Run's outputBuf
  clipboard,     \* what the clipboard command was given on its stdin
  stdout,        \* what was written to os.Stdout
  err,           \* the error Run returned
  args,          \* os.Args[1:]
  cfg,           \* the *Config ParseArgs returned
  exit           \* << code >> once ParseArgs called os.Exit(code)

vars == << fs, universe, paths, excludes, excludeFiles, ignoreCase, matcher,
           files, warnings, pc, probePath, probeIsDir, probeAns,
           showTree, onlyTree, printOut, outputBuf, clipboard, stdout, err,
           args, cfg, exit >>

\* the command line and what ParseArgs made of it
cli == << args, cfg, exit >>

config == << fs, universe, paths, excludes, excludeFiles, ignoreCase,
             showTree, onlyTree, printOut, cli >>

probe == << probePath, probeIsDir, probeAns >>

sinks == << outputBuf, clipboard, stdout >>

\* the errors of Run: what went wrong and, for an exclude file, its place
\* in Config.ExcludeFiles
NoError == [msg |-> "", file |-> 0]

ExcludeFileError(i) ==
  [msg |-> "loading exclude patterns: cannot read exclude file", file |-> i]

NoFilesError ==
  [msg |-> "no files matched after applying excludes", file |-> 0]

ClipboardError == [msg |-> "copying to clipboard", file |-> 0]

CollectError == [msg |-> "collecting files", file |-> 0]

NoMatcher == [ hasGitignore |-> FALSE, gitignore |-> <<>>,
               globPatterns |-> <<>>, ignoreCase |-> FALSE ]

\* the state Run starts in, for a run drawn from one of the universes of U
\* with at most nFiles exclude files
InitWith(U, nFiles) ==
  /\ \E u \in U :
       /\ universe = u
       /\ fs = u.fs
       /\ paths \in SeqsUpTo(u.tokens, MaxTokens)
       /\ excludes \in SeqsUpTo(u.excludes, MaxExcludes)
       /\ excludeFiles \in SeqsUpTo(u.files, nFiles)
       /\ ignoreCase \in u.ignoreCase
       /\ \E f \in u.flags :
            /\ showTree = f.showTree
            /\ onlyTree = f.onlyTree
            /\ printOut = f.printOut
  /\ matcher = NoMatcher
  /\ files = <<>>
  /\ warnings = <<>>
  /\ pc = "start"
  /\ probePath = <<>>
  /\ probeIsDir = FALSE
  /\ probeAns = FALSE
  /\ outputBuf = <<>>
  /\ clipboard = <<>>
  /\ stdout = <<>>
  /\ err = NoError
  /\ args = <<>>
  /\ cfg = EmptyConfig
  /\ exit = <<>>

InitIn(U) == InitWith(U, MaxExcludeFiles)

Init == InitIn(Universes)

\* Run: exclude.BuildMatcher(cfg.ExcludeFiles, cfg.Excludes, cfg.IgnoreCase)
RunBuildMatcher ==
  /\ pc = "start"
  /\ BuildMatcherError(excludeFiles) = 0
  /\ matcher' = BuildMatcher(excludeFiles, excludes, ignoreCase)
  /\ pc' = "built"
  /\ UNCHANGED << config, files, warnings, probe, sinks, err >>

\* Run: BuildMatcher returned an error; return "loading exclude patterns: ..."
RunBuildMatcherFails ==
  /\ pc = "start"
  /\ BuildMatcherError(excludeFiles) # 0
  /\ err' = ExcludeFileError(BuildMatcherError(excludeFiles))
  /\ pc' = "failed"
  /\ UNCHANGED << config, matcher, files, warnings, probe, sinks >>

\* Run: collector.CollectFiles(cfg.Paths, matcher, cfg.IgnoreCase)
RunCollectFiles ==
  /\ pc = "built"
  /\ LET r == CollectFiles(fs, paths, matcher, ignoreCase) IN
       IF CollectFilesError(fs, paths) = 0
       THEN /\ files' = r.result
            /\ warnings' = r.warnings
            /\ pc' = "collected"
            /\ err' = err
       ELSE /\ files' = <<>>
            /\ warnings' =
                 CollectFiles(fs, Take(paths, CollectFilesError(fs, paths) - 1),
                              matcher, ignoreCase).warnings
            /\ pc' = "failed"
            /\ err' = CollectError
  /\ UNCHANGED << config, matcher, probe, sinks >>

\* NoFilesMatched with the test left out
NoFilesMatchedNever(collected) == FALSE

\* Run: len(files) == 0
NoFilesMatched(collected) == Len(collected) = 0

\* Run: if len(files) == 0 { return error }
RunNoFiles ==
  /\ pc = "collected"
  /\ NoFilesMatched(files)
  /\ err' = NoFilesError
  /\ pc' = "failed"
  /\ UNCHANGED << config, matcher, files, warnings, probe, sinks >>

\* RunSortFiles without the sort
RunSortFilesUnsorted(s) == s

RunSortFiles(s) == SortStrings(s)

\* Run: sort.Strings(files)
RunSort ==
  /\ pc = "collected"
  /\ ~ NoFilesMatched(files)
  /\ files' = RunSortFiles(files)
  /\ pc' = "sorted"
  /\ UNCHANGED << config, matcher, warnings, probe, sinks, err >>

\* Run: the tree, when asked for, and the file sections, unless only the
\* tree was asked for, are written to outputBuf
RunBuildOutput ==
  /\ pc = "sorted"
  /\ outputBuf' = BuildOutput(universe.unreadable, paths, files,
                              showTree, onlyTree)
  /\ pc' = "assembled"
  /\ UNCHANGED << config, matcher, files, warnings, probe, clipboard,
                  stdout, err >>

\* Run: clipboard.CopyToClipboard(outputBuf.Bytes()) succeeded
RunCopyToClipboard ==
  /\ pc = "assembled"
  /\ clipboard' = outputBuf
  /\ pc' = "copied"
  /\ UNCHANGED << config, matcher, files, warnings, probe, outputBuf,
                  stdout, err >>

\* Run: no clipboard command was found, or the command failed; return
\* "copying to clipboard: ..."
RunCopyToClipboardFails ==
  /\ pc = "assembled"
  /\ err' = ClipboardError
  /\ pc' = "failed"
  /\ UNCHANGED << config, matcher, files, warnings, probe, sinks >>

\* Run: the output is written to os.Stdout when cfg.PrintOut is set, then
\* the success message is printed; return nil
RunPrint ==
  /\ pc = "copied"
  /\ stdout' = (IF printOut THEN outputBuf ELSE <<>>)
                 \o SuccessMessage(Len(files), onlyTree)
  /\ pc' = "done"
  /\ UNCHANGED << config, matcher, files, warnings, probe, outputBuf,
                  clipboard, err >>

Next ==
  \/ RunBuildMatcher
  \/ RunBuildMatcherFails
  \/ RunCollectFiles
  \/ RunNoFiles
  \/ RunSort
  \/ RunBuildOutput
  \/ RunCopyToClipboard
  \/ RunCopyToClipboardFails
  \/ RunPrint

Spec == Init /\ [][Next]_vars

(***************************************************************************)
(* Direct calls of ShouldExclude on a built matcher, as the unit tests     *)
(* make them: every entry of the tree, named by its path relative to the   *)
(* working directory or by its absolute path.                              *)
(***************************************************************************)
Entries == fs.files \cup fs.dirs

CallShouldExclude ==
  /\ pc \in {"built", "probed"}
  /\ \E e \in Entries, abs \in BOOLEAN :
       /\ probePath' = IF abs THEN Abs(e) ELSE e
       /\ probeIsDir' = IsDir(fs, e)
       /\ probeAns' = ShouldExclude(matcher, IF abs THEN Abs(e) ELSE e,
                                    IsDir(fs, e))
  /\ pc' = "probed"
  /\ UNCHANGED << config, matcher, files, warnings, sinks, err >>

ProbeInit == Init /\ paths = <<>>

ProbeNext == RunBuildMatcher \/ CallShouldExclude

ProbeSpec == ProbeInit /\ [][ProbeNext]_vars

(***************************************************************************)
(* Runs over the tree with exclude files, up to the end of CollectFiles:   *)
(* the runs that are compared with a run under a larger rule set.          *)
(***************************************************************************)
RuleInit == Init /\ fs = TreeLog

RuleNext == RunBuildMatcher \/ RunCollectFiles

RuleSpec == RuleInit /\ [][RuleNext]_vars

(***************************************************************************)
(* The exclusion scenarios: a matcher is built, ShouldExclude is called on *)
(* entries of the tree directly, or CollectFiles runs with the matcher.    *)
(***************************************************************************)
ExcludeInit == InitIn(ExcludeUniverses)

ExcludeNext == RunBuildMatcher \/ CallShouldExclude \/ RunCollectFiles

ExcludeSpec == ExcludeInit /\ [][ExcludeNext]_vars

(***************************************************************************)
(* The token scenarios: Run up to the end of CollectFiles.                 *)
(***************************************************************************)
SearchInit == InitIn(SearchUniverses)

SearchNext == RunBuildMatcher \/ RunCollectFiles

SearchSpec == SearchInit /\ [][SearchNext]_vars

\* the same runs up to the sort of the collected files
SortedNext == RunBuildMatcher \/ RunCollectFiles \/ RunNoFiles \/ RunSort

SortedSpec == SearchInit /\ [][SortedNext]_vars

(***************************************************************************)
(* The exclusion scenarios with several exclude files: one file holding    *)
(* *.log and one holding !keep.log, given in either order, over the tree   *)
(* with keep.log and debug.log.                                            *)
(***************************************************************************)
MaxRuleFiles == 2

OrderUniverse ==
  [ fs         |-> TreeLog,
    tokens     |-> {<<".">>},
    excludes   |-> {},
    files      |-> { << <<"*", ".", "l", "o", "g">> >>, << <<"!", "k", "e", "e", "p", ".", "l", "o", "g">> >> },
    ignoreCase |-> {FALSE},
    flags      |-> {PrintFlags},
    unreadable |-> {} ]

FilesInit == InitWith({OrderUniverse}, MaxRuleFiles)

FilesSpec == FilesInit /\ [][ExcludeNext]_vars

(***************************************************************************)
(* main up to the return of ParseArgs, for command lines of at most        *)
(* MaxArgs arguments over the options in their short or their long         *)
(* spelling, an unknown option and two paths.                              *)
(***************************************************************************)
MaxArgs == 3

ArgAlphabets ==
  { { <<"-", "h">>, <<"-", "e">>, <<"-", "-", "e", "x", "c", "l", "u", "d", "e", "-", "f", "r", "o", "m">>, <<"-", "t">>, <<"-", "-", "o", "n", "l", "y", "-", "t", "r", "e", "e">>, <<"-", "x">>,
      <<"a">>, <<"b">> },
    { <<"-", "-", "h", "e", "l", "p">>, <<"-", "-", "e", "x", "c", "l", "u", "d", "e">>, <<"-", "-", "t", "r", "e", "e">>, <<"-", "p">>, <<"-", "-", "p", "r", "i", "n", "t">>, <<"-", "i">>,
      <<"-", "-", "i", "g", "n", "o", "r", "e", "-", "c", "a", "s", "e">>, <<"a">> } }

ParseInit ==
  /\ \E A \in ArgAlphabets : args \in SeqsUpTo(A, MaxArgs)
  /\ cfg = EmptyConfig
  /\ exit = <<>>
  /\ pc = "main"
  /\ universe = OutUniverse
  /\ fs = OutUniverse.fs
  /\ paths = <<>>
  /\ excludes = <<>>
  /\ excludeFiles = <<>>
  /\ ignoreCase = FALSE
  /\ showTree = FALSE
  /\ onlyTree = FALSE
  /\ printOut = FALSE
  /\ matcher = NoMatcher
  /\ files = <<>>
  /\ warnings = <<>>
  /\ probePath = <<>>
  /\ probeIsDir = FALSE
  /\ probeAns = FALSE
  /\ outputBuf = <<>>
  /\ clipboard = <<>>
  /\ stdout = <<>>
  /\ err = NoError

\* main: cfg := clipcat.ParseArgs()
MainParseArgs ==
  /\ pc = "main"
  /\ LET st == ParseArgs(args) IN
       /\ exit' = st.exit
       /\ cfg' = IF st.exit = <<>> THEN st.cfg ELSE cfg
       /\ pc' = IF st.exit = <<>> THEN "parsed" ELSE "exited"
  /\ UNCHANGED << fs, universe, paths, excludes, excludeFiles, ignoreCase,
                  showTree, onlyTree, printOut, args, matcher, files,
                  warnings, probe, sinks, err >>

ParseSpec == ParseInit /\ [][MainParseArgs]_vars


(***************************************************************************)
(* Vocabulary of the properties                                            *)
(***************************************************************************)
Collected == pc \in {"collected", "sorted"}

IsSortedStrings(s) == \A i \in 1..(Len(s) - 1) : ~ StrLess(s[i + 1], s[i])

\* file or directory e of the tree lies below directory d of the tree
Below(d, e) == d = Dot \/ HasPrefix(e, d \o <<osSep>>)

IsDirToken(t) == Exists(fs, t) /\ IsDir(fs, t)

IsFileToken(t) == Exists(fs, t) /\ ~ IsDir(fs, t)

IsSearchToken(t) == ~ Exists(fs, t) /\ isGlobPattern(t)

HasTrailingSep(raw) == HasSuffix(TrimSpace(raw), <<"/">>)

\* the files CollectFiles returns for the run's tokens and tree under
\* another exclude configuration
ResultUnder(exFiles, exPatterns) ==
  Range(CollectFiles(fs, paths, BuildMatcher(exFiles, exPatterns, ignoreCase),
                     ignoreCase).result)

(***************************************************************************)
(* C1: the list CollectFiles returns holds no path that                    *)
(* ShouldExclude(path, false) answers true for, whether the file was named *)
(* as a literal token, reached by a directory walk or matched by a search  *)
(* pattern.                                                                *)
(***************************************************************************)
C1_NoExcludedFileReturned ==
  Collected => \A i \in DOMAIN files : ~ ShouldExclude(matcher, files[i], FALSE)

\* a literal file token was excluded while a walk of another token collected
C1_Witness ==
  /\ pc = "collected"
  /\ files # <<>>
  /\ \E t \in Range(paths) :
       IsFileToken(t) /\ ShouldExclude(matcher, Abs(t), FALSE)
  /\ \E t \in Range(paths) : IsDirToken(t) \/ IsSearchToken(t)

(***************************************************************************)
(* C2: the list CollectFiles returns never holds the same absolute path    *)
(* twice, however many tokens reach the file.                              *)
(***************************************************************************)
C2_NoDuplicateReturned ==
  Collected => \A i, j \in DOMAIN files : i # j => files[i] # files[j]

\* a file reached twice: named and walked, or by the same token given twice
C2_Witness ==
  /\ pc = "collected"
  /\ Len(paths) = 2
  /\ \/ /\ IsFileToken(paths[1]) /\ IsDirToken(paths[2])
        /\ Below(FsKey(paths[2]), FsKey(paths[1]))
        /\ Abs(paths[1]) \in Range(files)
     \/ /\ paths[1] = paths[2] /\ files # <<>>

DirMatchesPattern(d, raw) ==
  LET patCmp == lower(matcher, ReplaceSlash(TrimSpace(raw)))
      stem   == TrimSuffix(patCmp, <<osSep>>)
  IN  /\ HasSuffix(patCmp, <<osSep>>)
      /\ IF ~ hasGlobChars(stem) /\ ~ Contains(stem, <<osSep>>)
         THEN Base(lower(matcher, d)) = stem
         ELSE matchPath(stem, lower(matcher, d))

C4_ExcludedDirHasNoDescendant ==
  (pc = "collected" /\ \A t \in Range(paths) : ~ IsFileToken(t)) =>
    \A d \in fs.dirs, i \in DOMAIN excludes :
      DirMatchesPattern(d, excludes[i]) =>
        \A f \in fs.files : Below(d, f) => Abs(f) \notin Range(files)

(***************************************************************************)
(* C5: ShouldExclude gives the same answer for the absolute path of an     *)
(* entry below the working directory as for its path relative to the       *)
(* working directory.                                                      *)
(***************************************************************************)
C5_AbsoluteAsRelative ==
  pc = "probed" =>
    probeAns = ShouldExclude(matcher, FsKey(probePath), probeIsDir)

(***************************************************************************)
(* C6: an ad-hoc pattern without a separator excludes every non-directory  *)
(* whose basename matches it, at any depth; an ad-hoc pattern with a       *)
(* separator and without a trailing one excludes exactly the files whose   *)
(* path relative to the working directory matches it.                      *)
(***************************************************************************)
C6_BasenameVsPathAware ==
  (/\ pc = "probed"
   /\ ~ probeIsDir
   /\ ~ matcher.hasGitignore
   /\ Len(excludes) = 1
   /\ ~ HasTrailingSep(excludes[1])) =>
     LET pat == lower(matcher, TrimSpace(excludes[1]))
         rel == lower(matcher, FsKey(probePath))
     IN  IF Contains(pat, <<osSep>>)
         THEN probeAns = Match(pat, rel)
         ELSE probeAns = Match(pat, Base(rel))

(***************************************************************************)
(* C7: with only ad-hoc patterns that have no trailing separator and no    *)
(* exclude file, ShouldExclude answers false for every directory, so no    *)
(* directory is pruned: every file below a directory token that is not     *)
(* itself excluded as a file is collected.                                 *)
(***************************************************************************)
C7_FilePatternsNeverExcludeDirs ==
  (/\ pc = "collected"
   /\ ~ matcher.hasGitignore
   /\ \A i \in DOMAIN excludes : ~ HasTrailingSep(excludes[i])) =>
     /\ \A d \in fs.dirs \cup {Dot} :
          /\ ~ ShouldExclude(matcher, d, TRUE)
          /\ ~ ShouldExclude(matcher, Abs(d), TRUE)
     /\ \A t \in Range(paths), f \in fs.files :
          (/\ IsDirToken(t)
           /\ Below(FsKey(t), f)
           /\ ~ ShouldExclude(matcher, Abs(f), FALSE)) =>
             Abs(f) \in Range(files)

\* -e clipcat: the file clipcat/clipcat is excluded, the walk went into the
\* directory clipcat and collected clipcat/main.go
C7_Witness ==
  /\ pc = "collected"
  /\ excludes = <<<<"c", "l", "i", "p", "c", "a", "t">>>>
  /\ ~ matcher.hasGitignore
  /\ \E t \in Range(paths) : IsDirToken(t) /\ FsKey(t) = Dot
  /\ <<"/", "w", "/", "c", "l", "i", "p", "c", "a", "t", "/", "m", "a", "i", "n", ".", "g", "o">> \in Range(files)
  /\ <<"/", "w", "/", "c", "l", "i", "p", "c", "a", "t", "/", "c", "l", "i", "p", "c", "a", "t">> \notin Range(files)

(***************************************************************************)
(* C8: search token **/*.go with ad-hoc exclude **/*_test.go in a working  *)
(* directory holding main.go, main_test.go and pkg/x.go returns exactly    *)
(* main.go and pkg/x.go.                                                   *)
(***************************************************************************)
C8_DoublestarExclude ==
  (/\ pc = "collected"
   /\ fs = TreeGo
   /\ paths = <<<<"*", "*", "/", "*", ".", "g", "o">>>>
   /\ excludes = <<<<"*", "*", "/", "*", "_", "t", "e", "s", "t", ".", "g", "o">>>>
   /\ excludeFiles = <<>>) =>
     Range(files) = {<<"/", "w", "/", "m", "a", "i", "n", ".", "g", "o">>, <<"/", "w", "/", "p", "k", "g", "/", "x", ".", "g", "o">>}

(***************************************************************************)
(* C9: directory token src with ad-hoc exclude **/sub/ and no exclude file *)
(* over src/app.go, src/sub/util.go and src/sub/.hidden returns exactly    *)
(* src/app.go.                                                             *)
(***************************************************************************)
C9_PrefixGlobDirExclude ==
  (/\ pc = "collected"
   /\ fs = TreeSrc
   /\ paths = <<<<"s", "r", "c">>>>
   /\ excludes = <<<<"*", "*", "/", "s", "u", "b", "/">>>>
   /\ excludeFiles = <<>>) =>
     Range(files) = {<<"/", "w", "/", "s", "r", "c", "/", "a", "p", "p", ".", "g", "o">>}

(***************************************************************************)
(* C10, as claimed: adding any ad-hoc pattern, or appending any line to    *)
(* the exclude-file rules, never adds a file to what CollectFiles returns  *)
(* for the same tokens and tree.                                           *)
(***************************************************************************)
ExtraLines == UNION { Range(f) : f \in universe.files }

IsNegationLine(line) == HasPrefix(TrimSpace(line), <<"!">>)

AddingPatternShrinks(e) ==
  /\ ResultUnder(excludeFiles, Append(excludes, e)) \subseteq Range(files)
  /\ ResultUnder(excludeFiles, <<e>> \o excludes) \subseteq Range(files)

AddingLineShrinks(l) ==
  ResultUnder(Append(excludeFiles, <<l>>), excludes) \subseteq Range(files)

C10_AnyAddedRuleShrinks ==
  pc = "collected" =>
    /\ \A e \in universe.excludes : AddingPatternShrinks(e)
    /\ \A l \in ExtraLines : AddingLineShrinks(l)

(***************************************************************************)
(* C10, amended: adding any ad-hoc pattern, or appending any line that is  *)
(* not a negation (does not start with "!") to the exclude-file rules,     *)
(* never adds a file to what CollectFiles returns for the same tokens and  *)
(* tree.                                                                   *)
(***************************************************************************)
C10_AddedExcludeRuleShrinks ==
  pc = "collected" =>
    /\ \A e \in universe.excludes : AddingPatternShrinks(e)
    /\ \A l \in ExtraLines : ~ IsNegationLine(l) => AddingLineShrinks(l)

\* an added ad-hoc pattern and an appended line each removed a file
C10_Witness ==
  /\ pc = "collected"
  /\ \E e \in universe.excludes :
       ResultUnder(excludeFiles, Append(excludes, e)) # Range(files)
  /\ \E l \in ExtraLines :
       /\ ~ IsNegationLine(l)
       /\ ResultUnder(Append(excludeFiles, <<l>>), excludes) # Range(files)

(***************************************************************************)
(* C11: for ad-hoc exclude patterns letter case is ignored exactly when    *)
(* ignoreCase is set.  Over x.LOG, x.log, x.Log and the directories TeMp,  *)
(* temp, TEMP: *.LOG excludes a file when its name ends in .LOG, and with  *)
(* ignoreCase also when it ends in .LOG in another letter case; TeMp/      *)
(* excludes a file when a directory above it is named TeMp, and with       *)
(* ignoreCase also when that name is TeMp in another letter case.          *)
(***************************************************************************)
CaseFold(s) == IF ignoreCase THEN ToLower(s) ELSE s

\* the segments of a path above its last one
UpperSegments(p) ==
  LET segs == Split(p) IN { segs[i] : i \in 1..(Len(segs) - 1) }

CasePatternHits(pat, p) ==
  IF pat = <<"*", ".", "L", "O", "G">>
  THEN HasSuffix(CaseFold(p), CaseFold(<<".", "L", "O", "G">>))
  ELSE CaseFold(<<"T", "e", "M", "p">>) \in { CaseFold(s) : s \in UpperSegments(p) }

C11_ExcludeCaseIsIgnoreCase ==
  (fs = TreeCase /\ excludes # <<>>) =>
    /\ (pc = "probed" /\ ~ probeIsDir) =>
         probeAns = \E i \in DOMAIN excludes :
                      CasePatternHits(excludes[i], probePath)
    /\ (pc = "collected" /\ paths # <<>>) =>
         Range(files) =
           { Abs(f) : f \in { g \in fs.files :
                                \A i \in DOMAIN excludes :
                                  ~ CasePatternHits(excludes[i], g) } }

\* with ignoreCase, *.LOG excluded x.log
C11_Witness ==
  /\ pc = "probed"
  /\ ignoreCase
  /\ excludes = << <<"*", ".", "L", "O", "G">> >>
  /\ probePath = <<"x", ".", "l", "o", "g">>
  /\ probeAns

(***************************************************************************)
(* C12: the rules of the exclude files are applied in file order and the   *)
(* last rule that matches a path decides: with the rules *.log, !keep.log  *)
(* ShouldExclude is true for debug.log and false for keep.log, and a path  *)
(* whose last matching rule is a negation is not excluded.                 *)
(***************************************************************************)
RuleLines == SelectSeq(Flatten(excludeFiles), GiIsRule)

\* a rule without separators names the path: its body matches a segment
RuleNames(line, p) == \E s \in Range(Split(p)) : Match(GiBody(line), s)

\* the index of the last rule that names the path, 0 when none does
LastRuleNaming(p) ==
  LET hits == { i \in DOMAIN RuleLines : RuleNames(RuleLines[i], p) }
  IN  IF hits = {} THEN 0 ELSE CHOOSE i \in hits : \A j \in hits : j <= i

C13_AnchoredRuleMatchesTopOnly ==
  (universe = AnchorUniverse /\ excludeFiles = << << <<"/", "r", "o", "o", "t", ".", "t", "x", "t">> >> >>) =>
    /\ (pc = "probed" /\ ~ probeIsDir) =>
         probeAns = (FsKey(probePath) = <<"r", "o", "o", "t", ".", "t", "x", "t">>)
    /\ (pc = "collected" /\ paths = << <<".">> >>) =>
         Range(files) = { Abs(<<"s", "r", "c", "/", "r", "o", "o", "t", ".", "t", "x", "t">>), Abs(<<"s", "r", "c", "/", "d", "e", "e", "p", "/", "r", "o", "o", "t", ".", "t", "x", "t">>) }

(***************************************************************************)
(* C14: a trailing-separator ad-hoc pattern name/ whose stem has no glob   *)
(* character and no separator matches whole path segments.  ShouldExclude  *)
(* is true for a file or directory that lies below a segment equal to      *)
(* name, and false for a path none of whose segments equals name, however  *)
(* the segments contain name (distribution, dist_old, mydist for dist/).   *)
(***************************************************************************)
BareStem(raw) == TrimSuffix(TrimSpace(raw), <<"/">>)

C14_BareDirNameMatchesWholeSegments ==
  (universe = SegmentUniverse /\ excludes # <<>>) =>
    LET names == { BareStem(excludes[i]) : i \in DOMAIN excludes } IN
    /\ pc = "probed" =>
         /\ UpperSegments(probePath) \cap names # {} => probeAns
         /\ Range(Split(probePath)) \cap names = {} => ~ probeAns
    /\ (pc = "collected" /\ paths # <<>>) =>
         Range(files) =
           { Abs(f) : f \in { g \in fs.files :
                                UpperSegments(g) \cap names = {} } }

\* cache/ excluded src/cache/file.dat, asked about by its absolute path
C14_Witness ==
  /\ pc = "probed"
  /\ excludes = << <<"c", "a", "c", "h", "e", "/">> >>
  /\ probePath = Abs(<<"s", "r", "c", "/", "c", "a", "c", "h", "e", "/", "f", "i", "l", "e", ".", "d", "a", "t">>)
  /\ probeAns

(***************************************************************************)
(* C15: a token that names nothing on disk and is not a search pattern     *)
(* makes CollectFiles warn once, naming the token, adds no file, and the   *)
(* remaining tokens are processed as if the token had not been given.      *)
(***************************************************************************)
Unresolvable(t) ==
  ~ Exists(fs, t) /\ ~ ContainsAny(t, {"*", "?", "[", "{"})

Resolvable(t) == ~ Unresolvable(t)

C15_UnresolvableTokenWarnsAndContinues ==
  (pc = "collected" /\ universe = TokenUniverse) =>
    /\ SelectSeq(warnings, Unresolvable) = SelectSeq(paths, Unresolvable)
    /\ files = CollectFiles(fs, SelectSeq(paths, Resolvable), matcher,
                            ignoreCase).result

\* a token naming nothing came first and the file named after it was
\* collected
C15_Witness ==
  /\ pc = "collected"
  /\ paths = << <<"m", "i", "s", "s", "i", "n", "g", ".", "t", "x", "t">>, <<"m", "a", "i", "n", ".", "g", "o">> >>
  /\ warnings = << <<"m", "i", "s", "s", "i", "n", "g", ".", "t", "x", "t">> >>
  /\ files = << Abs(<<"m", "a", "i", "n", ".", "g", "o">>) >>

(***************************************************************************)
(* C16: a token that names nothing on disk is a search pattern when it     *)
(* holds one of * ? [ or a brace group; the token {main,util}.go is        *)
(* searched for across the tree (main.go, util.go and lib/util.go are      *)
(* collected) and is not reported as a non-existent path.                  *)
(***************************************************************************)
C16_BraceTokenIsSearched ==
  (/\ pc = "collected"
   /\ universe = TokenUniverse
   /\ paths = << <<"{", "m", "a", "i", "n", ",", "u", "t", "i", "l", "}", ".", "g", "o">> >>) =>
     /\ warnings = <<>>
     /\ Range(files) = { Abs(<<"m", "a", "i", "n", ".", "g", "o">>), Abs(<<"u", "t", "i", "l", ".", "g", "o">>), Abs(<<"l", "i", "b", "/", "u", "t", "i", "l", ".", "g", "o">>) }

(***************************************************************************)
(* C17: in a search walk a file that is not excluded is tested with its    *)
(* path relative to the working directory when the pattern holds a         *)
(* separator or **, and with its basename otherwise: *.md collects         *)
(* README.md at every depth, src/*.go the Go files directly in src, and    *)
(* level1/*/level3/deep.txt only level1/level2/level3/deep.txt.            *)
(***************************************************************************)
\* the files a search walk reaches: no ad-hoc bare directory name excludes
\* them
Reached(f) ==
  \A i \in DOMAIN excludes : BareStem(excludes[i]) \notin UpperSegments(f)

ExpectedFor(t) ==
  IF t = <<"*", ".", "m", "d">> THEN { <<"R", "E", "A", "D", "M", "E", ".", "m", "d">>, <<"d", "o", "c", "s", "/", "R", "E", "A", "D", "M", "E", ".", "m", "d">> }
  ELSE IF t = <<"s", "r", "c", "/", "*", ".", "g", "o">> THEN { <<"s", "r", "c", "/", "a", ".", "g", "o">> }
  ELSE { <<"l", "e", "v", "e", "l", "1", "/", "l", "e", "v", "e", "l", "2", "/", "l", "e", "v", "e", "l", "3", "/", "d", "e", "e", "p", ".", "t", "x", "t">> }

C17_PathOrBasenameMatch ==
  (pc = "collected" /\ universe = DepthUniverse) =>
    Range(files) =
      { Abs(f) : f \in { g \in UNION { ExpectedFor(paths[i]) :
                                         i \in DOMAIN paths } : Reached(g) } }

\* *.md collected README.md at two depths
C17_Witness ==
  /\ pc = "collected"
  /\ paths = << <<"*", ".", "m", "d">> >>
  /\ excludes = <<>>
  /\ Range(files) = { Abs(<<"R", "E", "A", "D", "M", "E", ".", "m", "d">>), Abs(<<"d", "o", "c", "s", "/", "R", "E", "A", "D", "M", "E", ".", "m", "d">>) }

(***************************************************************************)
(* C18: in a search pattern ** stands for zero or more whole path          *)
(* segments: **/*.go collects main.go of the working directory as well as  *)
(* a/b/main.go, and **/components/*.go collects the files directly inside  *)
(* a directory components at any depth and none below its subdirectories.  *)
(***************************************************************************)
\* the directories above a file, the working directory left out
ParentName(f) ==
  LET segs == Split(f) IN IF Len(segs) = 1 THEN <<>> ELSE segs[Len(segs) - 1]

StarExpectedFor(t) ==
  IF t = <<"*", "*", "/", "*", ".", "g", "o">>
  THEN { f \in fs.files : HasSuffix(f, <<".", "g", "o">>) }
  ELSE { f \in fs.files : ParentName(f) = <<"c", "o", "m", "p", "o", "n", "e", "n", "t", "s">> /\ HasSuffix(f, <<".", "g", "o">>) }

C18_DoublestarZeroOrMoreSegments ==
  (pc = "collected" /\ universe = StarUniverse) =>
    Range(files) =
      { Abs(f) : f \in UNION { StarExpectedFor(paths[i]) : i \in DOMAIN paths } }

\* **/components/*.go collected components/c.go and ui/components/d.go and
\* left ui/components/sub/e.go
C18_Witness ==
  /\ pc = "collected"
  /\ paths = << <<"*", "*", "/", "c", "o", "m", "p", "o", "n", "e", "n", "t", "s", "/", "*", ".", "g", "o">> >>
  /\ Range(files) = { Abs(<<"c", "o", "m", "p", "o", "n", "e", "n", "t", "s", "/", "c", ".", "g", "o">>), Abs(<<"u", "i", "/", "c", "o", "m", "p", "o", "n", "e", "n", "t", "s", "/", "d", ".", "g", "o">>) }

(***************************************************************************)
(* C19: for a search pattern ignoreCase lowercases the pattern and the     *)
(* candidate before they are matched.  Over TestFile.go, testfile.txt,     *)
(* TESTFILE.md, MyTest.go and other.go: with ignoreCase *.GO collects the  *)
(* names that end in .go in any letter case and *TEST*, *test* the names   *)
(* that hold test in any letter case; without it *.GO collects nothing,    *)
(* *test* only the names that hold lowercase test and *TEST* only those    *)
(* that hold TEST.                                                         *)
(***************************************************************************)
NameExpectedFor(t) ==
  IF t = <<"*", ".", "G", "O">>
  THEN { f \in fs.files : HasSuffix(CaseFold(f), CaseFold(<<".", "G", "O">>)) }
  ELSE { f \in fs.files : Contains(CaseFold(f), CaseFold(SubSeq(t, 2, 5))) }

C19_SearchCaseIsIgnoreCase ==
  (pc = "collected" /\ universe = NamesUniverse) =>
    Range(files) =
      { Abs(f) : f \in UNION { NameExpectedFor(paths[i]) : i \in DOMAIN paths } }

\* with ignoreCase *.GO collected the files ending in lowercase .go
C19_Witness ==
  /\ pc = "collected"
  /\ ignoreCase
  /\ paths = << <<"*", ".", "G", "O">> >>
  /\ Range(files) = { Abs(<<"T", "e", "s", "t", "F", "i", "l", "e", ".", "g", "o">>), Abs(<<"M", "y", "T", "e", "s", "t", ".", "g", "o">>), Abs(<<"o", "t", "h", "e", "r", ".", "g", "o">>) }

(***************************************************************************)
(* C20: when an exclude file named on the command line cannot be opened,   *)
(* Run stops with the error of BuildMatcher, which names the first such    *)
(* file, before anything is collected: no token is walked, nothing is      *)
(* given to the clipboard and nothing is written to stdout.                *)
(***************************************************************************)
C20_UnreadableExcludeFileStopsRun ==
  ((\E i \in DOMAIN excludeFiles : excludeFiles[i] = CannotOpen)
     /\ pc # "start") =>
    /\ pc = "failed"
    /\ err.msg = "loading exclude patterns: cannot read exclude file"
    /\ err.file \in DOMAIN excludeFiles
    /\ excludeFiles[err.file] = CannotOpen
    /\ \A j \in 1..(err.file - 1) : excludeFiles[j] # CannotOpen
    /\ matcher = NoMatcher
    /\ files = <<>>
    /\ warnings = <<>>
    /\ outputBuf = <<>>
    /\ clipboard = <<>>
    /\ stdout = <<>>

\* a print run with tokens stopped at the exclude file
C20_Witness ==
  /\ pc = "failed"
  /\ err = ExcludeFileError(1)
  /\ paths # <<>>
  /\ printOut
  /\ stdout = <<>>
  /\ clipboard = <<>>

(***************************************************************************)
(* C21: when CollectFiles returned no file, Run returns the error "no      *)
(* files matched after applying excludes": it never goes on to sort,       *)
(* assemble, copy or print, so the clipboard is not called and nothing,    *)
(* not even the success message, is written.                               *)
(***************************************************************************)
C21_NoFilesStopsRun ==
  (pc \notin {"start", "built"} /\ files = <<>>
     /\ BuildMatcherError(excludeFiles) = 0) =>
    /\ pc \in {"collected", "failed"}
    /\ pc = "collected" => ~ ENABLED RunSort
    /\ pc = "failed" => err = NoFilesError
    /\ outputBuf = <<>>
    /\ clipboard = <<>>
    /\ stdout = <<>>

\* a print run whose only token names an excluded file, stopped with the
\* error
C21_Witness ==
  /\ pc = "failed"
  /\ err = NoFilesError
  /\ paths = << <<"a", ".", "t", "x", "t">> >>
  /\ excludes = << <<"a", ".", "t", "x", "t">> >>
  /\ warnings = <<>>
  /\ printOut
  /\ stdout = <<>>
  /\ clipboard = <<>>

(***************************************************************************)
(* C22: in a run with PrintOut set, a clipboard command that is missing or *)
(* fails does not end the run: the assembled output is still written to    *)
(* stdout.                                                                 *)
(***************************************************************************)
C22_PrintRunSurvivesClipboardFailure ==
  (printOut /\ err = ClipboardError) =>
    /\ pc # "failed"
    /\ Len(stdout) >= Len(outputBuf)
    /\ Take(stdout, Len(outputBuf)) = outputBuf

(***************************************************************************)
(* C23: once the output is assembled in a run that copies file contents,   *)
(* the part of the output after the tree is, for the collected files in    *)
(* their sorted order, the bar, the path, the bar and a blank line,        *)
(* followed by the content of the file, or by the line [unreadable] when   *)
(* the file cannot be opened, and a blank line.  A file that cannot be     *)
(* opened does not stop Run: a run that collected files fails only at the  *)
(* clipboard.                                                              *)
(***************************************************************************)
Bar(path) == [i \in 1..Len(path) |-> "="]

SectionOf(file) ==
  Bar(file) \o <<NL>> \o file \o <<NL>> \o Bar(file) \o <<NL, NL>>
  \o (IF FsKey(file) \in universe.unreadable
      THEN <<"[", "u", "n", "r", "e", "a", "d", "a", "b", "l", "e", "]">> \o <<NL>>
      ELSE <<"#">> \o FsKey(file))
  \o <<NL>>

RECURSIVE SectionsOf(_)
SectionsOf(list) ==
  IF list = <<>> THEN <<>>
  ELSE SectionOf(Head(list)) \o SectionsOf(Tail(list))

Assembled ==
  pc \in {"assembled", "copied", "done"}
    \/ (pc = "failed" /\ err = ClipboardError)

C23_UnreadableFileIsMarked ==
  /\ (Assembled /\ ~ onlyTree) =>
       /\ \A i, j \in DOMAIN files : i < j => StrLess(files[i], files[j])
       /\ HasSuffix(outputBuf, SectionsOf(files))
       /\ ~ showTree => outputBuf = SectionsOf(files)
  /\ (pc = "failed" /\ files # <<>>) => err = ClipboardError
  /\ pc \in {"assembled", "copied", "done"} => err = NoError

\* a finished run that copied d/b.txt and d/c.txt, which cannot be opened
C23_Witness ==
  /\ pc = "done"
  /\ ~ onlyTree
  /\ files = << Abs(<<"d", "/", "b", ".", "t", "x", "t">>), Abs(<<"d", "/", "c", ".", "t", "x", "t">>) >>
  /\ FsKey(files[2]) \in universe.unreadable
  /\ Contains(clipboard, <<"[", "u", "n", "r", "e", "a", "d", "a", "b", "l", "e", "]">>)

(***************************************************************************)
(* C24: with OnlyTree and ShowTree both set, as --only-tree sets them, the *)
(* assembled output is the FILE HIERARCHY header followed by tree lines    *)
(* only: two lines hold "==", both in the header; no line is the path of a *)
(* collected file and the content of no collected file appears.            *)
(***************************************************************************)
LineStarts(text) ==
  { a \in 1..Len(text) : a = 1 \/ text[a - 1] = NL }

LineAt(text, a) ==
  LET e == CHOOSE e \in a..(Len(text) + 1) :
             /\ e = Len(text) + 1 \/ text[e] = NL
             /\ \A k \in a..(e - 1) : text[k] # NL
  IN  SubSeq(text, a, e - 1)

HierarchyHeader ==
  <<"=", "=", "=", "=", "=", "=", "=", "=", "=", "=", "=", "=", "=", "=">> \o <<NL>> \o <<"F", "I", "L", "E", " ", "H", "I", "E", "R", "A", "R", "C", "H", "Y">> \o <<NL>>
  \o <<"=", "=", "=", "=", "=", "=", "=", "=", "=", "=", "=", "=", "=", "=">> \o <<NL, NL>>

IsTreeLine(line) ==
  \/ line = <<>>
  \/ line[Len(line)] = osSep
  \/ line[1] = "-"

C24_TreeOnlyOutput ==
  (Assembled /\ onlyTree /\ showTree) =>
    /\ HasPrefix(outputBuf, HierarchyHeader)
    /\ Len(outputBuf) > Len(HierarchyHeader)
    /\ \A a \in LineStarts(outputBuf) :
         /\ a > Len(HierarchyHeader) => IsTreeLine(LineAt(outputBuf, a))
         /\ Contains(LineAt(outputBuf, a), <<"=", "=">>) => a < Len(HierarchyHeader)
    /\ Cardinality({ a \in LineStarts(outputBuf) :
                       Contains(LineAt(outputBuf, a), <<"=", "=">>) }) = 2
    /\ \A i \in DOMAIN files :
         /\ \A a \in LineStarts(outputBuf) : LineAt(outputBuf, a) # files[i]
         /\ ~ Contains(outputBuf, <<"#">> \o FsKey(files[i]))
         /\ ~ Contains(outputBuf, <<"[", "u", "n", "r", "e", "a", "d", "a", "b", "l", "e", "]">>)

\* a finished tree-only print run over the three files of the tree
C24_Witness ==
  /\ pc = "done"
  /\ onlyTree /\ showTree /\ printOut
  /\ Len(files) = 3
  /\ Contains(clipboard, <<"-", "-", "b", ".", "t", "x", "t">>)
  /\ HasPrefix(stdout, HierarchyHeader)

(***************************************************************************)
(* C25: a directory below the walk root that cannot be read is skipped and *)
(* the files beside it are still collected; CollectFiles returns an error, *)
(* and Run fails with "collecting files", exactly when the root of a walk  *)
(* cannot be read: a directory token, or the working directory for a       *)
(* search pattern.                                                         *)
(***************************************************************************)
WalksFrom(token) ==
  IF Exists(fs, token)
  THEN IF IsDir(fs, token) THEN {FsKey(token)} ELSE {}
  ELSE IF isGlobPattern(token) THEN {Dot} ELSE {}

RootUnreadable ==
  \E i \in DOMAIN paths : \E d \in WalksFrom(paths[i]) : ReadDirFails(fs, d)

\* the files below directory d with no unreadable directory on the way
ReadableBelow(d) ==
  { f \in fs.files :
      /\ d = Dot \/ HasPrefix(f, d \o <<osSep>>)
      /\ ~ ReadDirFails(fs, d)
      /\ \A k \in fs.dirs :
           (HasPrefix(f, k \o <<osSep>>) /\ (d = Dot \/ HasPrefix(k, d)))
             => ~ ReadDirFails(fs, k) }

C25_OnlyWalkRootErrorAborts ==
  ("denied" \in DOMAIN fs /\ pc \in {"collected", "failed"}) =>
    /\ RootUnreadable <=> (pc = "failed" /\ err = CollectError)
    /\ ~ RootUnreadable =>
         \A i \in DOMAIN paths :
           (Exists(fs, paths[i]) /\ IsDir(fs, paths[i])) =>
             \A f \in ReadableBelow(FsKey(paths[i])) : Abs(f) \in Range(files)

(***************************************************************************)
(* C26: read from left to right, the first argument that is -h or --help,  *)
(* an unknown option, or -e, --exclude or --exclude-from in the last place *)
(* decides: ParseArgs exits with code 0 for the help flag and with code 2  *)
(* for the other two; when no argument decides, it exits with code 2 if no *)
(* path was given and returns the Config otherwise.  The argument after    *)
(* -e, --exclude or --exclude-from is its value, whatever it looks like.   *)
(***************************************************************************)
TakesValue(a) == a \in {<<"-", "e">>, <<"-", "-", "e", "x", "c", "l", "u", "d", "e">>, <<"-", "-", "e", "x", "c", "l", "u", "d", "e", "-", "f", "r", "o", "m">>}

KnownOptions ==
  { <<"-", "h">>, <<"-", "-", "h", "e", "l", "p">>, <<"-", "e">>, <<"-", "-", "e", "x", "c", "l", "u", "d", "e">>, <<"-", "-", "e", "x", "c", "l", "u", "d", "e", "-", "f", "r", "o", "m">>, <<"-", "t">>,
    <<"-", "-", "t", "r", "e", "e">>, <<"-", "-", "o", "n", "l", "y", "-", "t", "r", "e", "e">>, <<"-", "p">>, <<"-", "-", "p", "r", "i", "n", "t">>, <<"-", "i">>, <<"-", "-", "i", "g", "n", "o", "r", "e", "-", "c", "a", "s", "e">> }

RECURSIVE IsValueAt(_)
IsValueAt(i) == i > 1 /\ TakesValue(args[i - 1]) /\ ~ IsValueAt(i - 1)

IsHelpAt(i) == ~ IsValueAt(i) /\ args[i] \in {<<"-", "h">>, <<"-", "-", "h", "e", "l", "p">>}

IsUsageErrorAt(i) ==
  /\ ~ IsValueAt(i)
  /\ \/ TakesValue(args[i]) /\ i = Len(args)
     \/ HasPrefix(args[i], <<"-">>) /\ args[i] \notin KnownOptions

IsPathAt(i) == ~ IsValueAt(i) /\ ~ HasPrefix(args[i], <<"-">>)

Deciding == { i \in DOMAIN args : IsHelpAt(i) \/ IsUsageErrorAt(i) }

FirstDeciding == CHOOSE i \in Deciding : \A j \in Deciding : i <= j

C26_ParseArgsExitCodes ==
  pc \in {"parsed", "exited"} =>
    /\ exit \in {<<>>, <<0>>, <<2>>}
    /\ pc = "exited" <=> exit # <<>>
    /\ Deciding # {} =>
         exit = IF IsHelpAt(FirstDeciding) THEN <<0>> ELSE <<2>>
    /\ Deciding = {} =>
         exit = IF \E i \in DOMAIN args : IsPathAt(i) THEN <<>> ELSE <<2>>
    /\ exit = <<>> => cfg.Paths # <<>>
    /\ exit # <<>> => cfg = EmptyConfig

\* options only, and none of them decides: exit with code 2 for want of a
\* path
C26_Witness ==
  /\ pc = "exited"
  /\ args = << <<"-", "t">>, <<"-", "e">>, <<"a">> >>
  /\ Deciding = {}
  /\ exit = <<2>>

(***************************************************************************)
(* C27: in the Config ParseArgs returns, Paths holds the arguments that    *)
(* are neither options nor values, Excludes the values of -e and           *)
(* --exclude, ExcludeFiles the values of --exclude-from, each in the order *)
(* of the command line; a boolean field is set exactly when one of its     *)
(* options occurs, before or after the paths; and every argument is        *)
(* accounted for once.                                                     *)
(***************************************************************************)
ArgsAt(I) ==
  LET idx == SelectSeq([i \in 1..Len(args) |-> i], LAMBDA i : i \in I)
  IN  [k \in DOMAIN idx |-> args[idx[k]]]

ValuesOf(options) ==
  ArgsAt({ i \in DOMAIN args : IsValueAt(i) /\ args[i - 1] \in options })

Given(options) ==
  \E i \in DOMAIN args : ~ IsValueAt(i) /\ args[i] \in options

BooleanOptionsAt ==
  { i \in DOMAIN args :
      /\ ~ IsValueAt(i)
      /\ args[i] \in { <<"-", "t">>, <<"-", "-", "t", "r", "e", "e">>, <<"-", "-", "o", "n", "l", "y", "-", "t", "r", "e", "e">>, <<"-", "p">>, <<"-", "-", "p", "r", "i", "n", "t">>,
                       <<"-", "i">>, <<"-", "-", "i", "g", "n", "o", "r", "e", "-", "c", "a", "s", "e">> } }

C27_FlagsAndPathsIntermixed ==
  pc = "parsed" =>
    /\ cfg.Paths = ArgsAt({ i \in DOMAIN args : IsPathAt(i) })
    /\ cfg.Excludes = ValuesOf({<<"-", "e">>, <<"-", "-", "e", "x", "c", "l", "u", "d", "e">>})
    /\ cfg.ExcludeFiles = ValuesOf({<<"-", "-", "e", "x", "c", "l", "u", "d", "e", "-", "f", "r", "o", "m">>})
    /\ cfg.ShowTree <=> Given({<<"-", "t">>, <<"-", "-", "t", "r", "e", "e">>, <<"-", "-", "o", "n", "l", "y", "-", "t", "r", "e", "e">>})
    /\ cfg.OnlyTree <=> Given({<<"-", "-", "o", "n", "l", "y", "-", "t", "r", "e", "e">>})
    /\ cfg.PrintOut <=> Given({<<"-", "p">>, <<"-", "-", "p", "r", "i", "n", "t">>})
    /\ cfg.IgnoreCase <=> Given({<<"-", "i">>, <<"-", "-", "i", "g", "n", "o", "r", "e", "-", "c", "a", "s", "e">>})
    /\ Len(cfg.Paths) + 2 * Len(cfg.Excludes) + 2 * Len(cfg.ExcludeFiles)
         + Cardinality(BooleanOptionsAt) = Len(args)

\* two paths in command-line order with --only-tree between them
C27_Witness ==
  /\ pc = "parsed"
  /\ args = << <<"b">>, <<"-", "-", "o", "n", "l", "y", "-", "t", "r", "e", "e">>, <<"a">> >>
  /\ cfg.Paths = << <<"b">>, <<"a">> >>
  /\ cfg.ShowTree /\ cfg.OnlyTree

(***************************************************************************)
(* C28: with an exclude pattern name/ of a bare directory name, the walk   *)
(* callback's call ShouldExclude(absPath, true) answers true for every     *)
(* directory of the tree whose last segment is name, at the top or deeper, *)
(* so that the walk is pruned there.                                       *)
(***************************************************************************)
NamedByPattern(d) ==
  \E i \in DOMAIN excludes : excludes[i] = Base(d) \o <<"/">>

C28_NamedDirectoryPrunedItself ==
  (pc = "collected" /\ Dot \in Range(paths)) =>
    \A d \in fs.dirs :
      NamedByPattern(d) => ShouldExclude(matcher, Abs(d), TRUE)

(***************************************************************************)
(* C29: the sorted file list of a run is the sorted list CollectFiles      *)
(* returns for every other arrangement of the same tokens, with tokens     *)
(* repeated or repetitions dropped: the files collected and the order they *)
(* are emitted in depend on the set of tokens only.                        *)
(***************************************************************************)
Rearrangements ==
  { q \in SeqsUpTo(Range(paths), MaxTokens) : Range(q) = Range(paths) }

C29_TokenOrderIsImmaterial ==
  pc = "sorted" =>
    \A q \in Rearrangements :
      \A other \in {CollectFiles(fs, q, matcher, ignoreCase).result} :
        /\ Range(other) = Range(files)
        /\ SortStrings(other) = files

\* a sorted run over two different tokens, the second of which added files
\* the first had not found
C29_Witness ==
  /\ pc = "sorted"
  /\ Len(paths) = 2
  /\ paths[1] # paths[2]
  /\ \E q \in Rearrangements :
       /\ q # paths
       /\ CollectFiles(fs, q, matcher, ignoreCase).result # <<>>
       /\ CollectFiles(fs, q, matcher, ignoreCase).result
            # CollectFiles(fs, paths, matcher, ignoreCase).result

(***************************************************************************)
(* C30: the rules of the exclude files form one rule set in the order the  *)
(* files were given, so the last rule that names a path wins across files. *)
(* With one file holding *.log and one holding !keep.log, keep.log is      *)
(* excluded exactly when the file given last is the one with *.log, for a  *)
(* direct call of ShouldExclude and in a walk alike; debug.log is excluded *)
(* whenever a file with *.log is given.                                    *)
(***************************************************************************)
LogFile == << <<"*", ".", "l", "o", "g">> >>

KeepFile == << <<"!", "k", "e", "e", "p", ".", "l", "o", "g">> >>

LastFileIsLog ==
  excludeFiles # <<>> /\ excludeFiles[Len(excludeFiles)] = LogFile

C30_RuleOrderSpansFiles ==
  universe = OrderUniverse =>
    /\ pc \in {"built", "probed", "collected"} =>
         matcher.gitignore =
           CompileIgnoreLines([k \in DOMAIN excludeFiles |-> excludeFiles[k][1]])
    /\ (pc = "probed" /\ FsKey(probePath) = <<"k", "e", "e", "p", ".", "l", "o", "g">>) =>
         (probeAns <=> LastFileIsLog)
    /\ (pc = "probed" /\ FsKey(probePath) = <<"d", "e", "b", "u", "g", ".", "l", "o", "g">>) =>
         (probeAns <=> LogFile \in Range(excludeFiles))
    /\ (pc = "collected" /\ Dot \in Range(paths)) =>
         /\ Abs(<<"k", "e", "e", "p", ".", "l", "o", "g">>) \notin Range(files) <=> LastFileIsLog
         /\ Abs(<<"d", "e", "b", "u", "g", ".", "l", "o", "g">>) \notin Range(files)
              <=> LogFile \in Range(excludeFiles)

\* *.log in the first file and !keep.log in the second: the walk returned
\* keep.log and not debug.log
C30_Witness ==
  /\ pc = "collected"
  /\ excludeFiles = << LogFile, KeepFile >>
  /\ Abs(<<"k", "e", "e", "p", ".", "l", "o", "g">>) \in Range(files)
  /\ Abs(<<"d", "e", "b", "u", "g", ".", "l", "o", "g">>) \notin Range(files)

====
